---- MODULE Spec2Model ----
(***************************************************************************)
(* A model of the dancing_lights audio visualizer: the animation-frame     *)
(* hook (useAnimationFrame), the canvas component that dispatches a frame  *)
(* to the renderer of the selected mode (VisualizerCanvas), and the four   *)
(* mode renderers with their module-level animation state.                 *)
(*                                                                         *)
(* Numbers.  JavaScript numbers are modelled in fixed point: quantities in *)
(* [0,1] (averageFrequency, random draws, offsets, amplitude, smoothing)   *)
(* are in thousandths, lengths in thousandths of a CSS pixel, times in     *)
(* milliseconds, the scope rotation in millionths of a radian.  A division *)
(* rounds toward minus infinity.  NaN is the value NaN below.              *)
(***************************************************************************)
EXTENDS Integers, Sequences, FiniteSets, TLC

VARIABLES
    \* ---- useAnimationFrame / VisualizerCanvas
    mounted,          \* the component is mounted
    isActive,         \* the isActive prop
    mode,             \* the mode prop (the mode selected most recently)
    callbackRef,      \* the mode captured by the closure in callbackRef.current
    requestRef,       \* requestRef.current: a request id or NULL
    previousTimeRef,  \* previousTimeRef.current: a timestamp or NULL
    rafQueue,         \* request ids the browser still has to deliver
    rafSeq,           \* the last request id the browser handed out
    clock,            \* real time in ms; frame timestamps and Date.now() follow it
    dimensionsRef,    \* dimensionsRef.current
    \* ---- bars.ts module state
    previousHeights, barsOffsets, barsLastOffsetUpdate,
    \* ---- scope.ts module state
    rotation, scopeTime, triangles, scopeInitialized, scopeOffsets, scopeLastOffsetUpdate,
    \* ---- ambiance.ts module state
    particles, ambTime, ambInitialized,
    \* ---- objects the renderers are handed
    defaultConfig,    \* the four defaultConfig objects
    analyserData,     \* the snapshot arrays last produced for a render call
    \* ---- observation of the run (history)
    lastCall,         \* the last render call: renderer, inputs, outcome
    calls,            \* number of render calls so far
    lastFrame,        \* the last delivered animation frame
    frames,           \* number of frames delivered so far
    loop,             \* history of the frame loop since its latest start
    reselected,       \* modes selected again after having rendered, not yet rendered since
    leftState,        \* per mode, the private state its last render left
    \* ---- useAnalyser
    analyserRef,        \* analyserRef.current: an analyser node or NULL
    frequencyDataRef,   \* frequencyDataRef.current: an array object or NoArray
    timeDomainDataRef,  \* timeDomainDataRef.current: an array object or NoArray
    allocSeq,           \* the identity of the array allocated last
    lastGet,            \* what the last getData call returned (history)
    gets, sets,         \* number of getData and of setAnalyser calls so far
    getsSinceSet,       \* getData calls since the last setAnalyser call
    \* ---- useMicrophone
    streamRef,          \* streamRef.current: a stream or NULL
    micState,           \* the hook's state object
    mediaDevices,       \* navigator.mediaDevices.getUserMedia exists
    pendingRequests,    \* getUserMedia requests that have not settled
    liveStreams,        \* streams with a track that was not stopped
    micSeq,             \* the last request handed to getUserMedia
    stops,              \* number of stopMicrophone calls so far
    lastMic,            \* the last operation on the hook (history)
    \* ---- useAudioContext
    audioContextRef,    \* audioContextRef.current: a context or NULL
    audioAnalyserRef,   \* useAudioContext's analyserRef.current: the analyser of a context or NULL
    sourceRef,          \* sourceRef.current: a source node or NULL
    audioState,         \* the hook's state object
    contextState,       \* contextState[c]: AudioContext.state of the c-th context created
    pendingResumes,     \* contexts whose resume() an initializeAudioContext call awaits
    connectedSources,   \* source nodes connected to an analyser
    sourceSeq,          \* source nodes created so far
    cleanups,           \* number of cleanup calls so far
    lastAudio,          \* the last operation on the hook (history)
    \* ---- audioHelpers
    lastHelper,         \* the last call of a helper: its arguments and its result
    \* ---- VisualizerCanvas: the canvas element
    canvas,             \* canvas.width and canvas.height: the backing store, in pixels
    transform,          \* the scale of the 2D context's transform, in thousandths
    devicePixelRatio,   \* window.devicePixelRatio, in thousandths
    lastResize,         \* the last updateSize: the rect and the ratio it read, and the
                        \* render calls made before it (history)
    \* ---- the flowing ambiance module (part_001 lines 225-416)
    flowParticles,      \* particles
    flowTime,           \* time
    flowInitialized,    \* initialized
    lastFlow            \* the last render call of the module (history)

hookVars == <<mounted, isActive, mode, callbackRef, requestRef, previousTimeRef,
              rafQueue, rafSeq, dimensionsRef>>
barsVars == <<previousHeights, barsOffsets, barsLastOffsetUpdate>>
scopeVars == <<rotation, scopeTime, triangles, scopeInitialized, scopeOffsets,
               scopeLastOffsetUpdate>>
ambVars == <<particles, ambTime, ambInitialized>>
obsVars == <<lastCall, calls, lastFrame, frames, loop, reselected, leftState>>
analyserVars == <<analyserRef, frequencyDataRef, timeDomainDataRef, allocSeq, lastGet,
                  gets, sets, getsSinceSet>>
\* the hooks beside the canvas
micVars == <<streamRef, micState, mediaDevices, pendingRequests, liveStreams, micSeq,
             stops, lastMic>>
audioVars == <<audioContextRef, audioAnalyserRef, sourceRef, audioState, contextState,
               pendingResumes, connectedSources, sourceSeq, cleanups, lastAudio>>
canvasVars == <<canvas, transform, devicePixelRatio, lastResize>>
flowVars == <<flowParticles, flowTime, flowInitialized, lastFlow>>
sideVars == <<analyserVars, micVars, audioVars, lastHelper, canvasVars, flowVars>>
vars == <<hookVars, clock, barsVars, scopeVars, ambVars, defaultConfig, analyserData,
          obsVars, sideVars>>

NULL == -1
NaN == -999999999

Modes == {"bars", "waveform", "scope", "ambiance"}

\* ---- bounds of the model
MaxFrames == 3        \* animation frames delivered in a run
MaxStarts == 2        \* starts of the frame loop in a run
MaxCalls == 2         \* render calls in a run
MaxTicks == 1         \* clock ticks in a run
MaxGets == 3          \* getData calls in a run
MaxSets == 3          \* setAnalyser calls in a run
MaxRequests == 2      \* getUserMedia requests in a run
MaxStops == 2         \* stopMicrophone calls in a run
MaxContexts == 2      \* audio contexts created in a run
MaxSources == 2       \* media stream sources created in a run
MaxCleanups == 2      \* cleanup calls in a run
MaxShortBins == 3     \* every array of up to this many bins is an input of getBassEnergy
MaxBassBins == 2      \* bins in the bass range of its longer inputs
MaxTotalBars == 4     \* totalBars of a getLogarithmicIndex call
MaxDataLength == 8    \* dataLength of a getLogarithmicIndex call
MaxGapBars == 6       \* totalBars of the calls with three bars in the upper half
MaxGapLength == 5     \* dataLength of those calls
BarCount == 1         \* barCount of the default configs (64 and 128 in the source)
ParticleCount == 1    \* particleCount of the default config (60 in the source)
TrianglePool == 1     \* triangles of the scope background (25 in the source)

\* ---- values the inputs are drawn from
RandVals == {250, 750}                      \* Math.random() draws that are followed
FixedRand == {750}                          \* Math.random() draws that are not
DtVals == {-16, 0, 16}                      \* deltaTime of a direct render call
DimVals == {[width |-> 0, height |-> 0], [width |-> 800000, height |-> 600000]}

\* Date.now() at the start of a run, the ms of a clock tick, and the ms from a
\* frame request to the frame
DateEpoch == 1000
TickMs == 48
FrameMs == 16

DateNow == DateEpoch + clock

Min(a, b) == IF a < b THEN a ELSE b
Max(a, b) == IF a > b THEN a ELSE b

\* Math.pow(x, 0.5) of a value in thousandths, in thousandths
RECURSIVE SqrtIn(_, _, _)
SqrtIn(n, lo, hi) ==
    IF lo = hi THEN lo
    ELSE LET mid == (lo + hi + 1) \div 2
         IN  IF mid * mid <= n THEN SqrtIn(n, mid, hi) ELSE SqrtIn(n, lo, mid - 1)
Sqrt(x) == SqrtIn(x * 1000, 0, 1000)

RECURSIVE SumTo(_, _)
SumTo(data, n) == IF n = 0 THEN 0 ELSE data[n] + SumTo(data, n - 1)

\* ---------------------------------------------------------------------------
\* audioHelpers
\* ---------------------------------------------------------------------------
getAverageAmplitude(data) ==
    IF Len(data) = 0 THEN 0 ELSE (SumTo(data, Len(data)) * 1000) \div (Len(data) * 255)

getPeakFrequencyIndex(data) ==
    IF \A i \in 1..Len(data) : data[i] = 0 THEN 0
    ELSE (CHOOSE i \in 1..Len(data) :
             /\ \A j \in 1..Len(data) : data[j] <= data[i]
             /\ \A j \in 1..(i - 1) : data[j] < data[i]) - 1

\* sum / bassRange / 255 is 0 / 0 = NaN when the range is empty
getBassEnergy(data) ==
    LET bassRange == Len(data) \div 10
    IN  IF bassRange = 0 THEN NaN
        ELSE (SumTo(data, bassRange) * 1000) \div (bassRange * 255)

\* a concave curve: the exponent 0.5 instead of 1.2
ConcaveLogarithmicIndex(linearIndex, totalBars, dataLength) ==
    CHOOSE k \in 0..dataLength :
        /\ k ^ 2 * totalBars <= dataLength ^ 2 * linearIndex
        /\ (k + 1) ^ 2 * totalBars > dataLength ^ 2 * linearIndex

\* a 1-based index: the bar's number instead of its index
OneBasedLogarithmicIndex(linearIndex, totalBars, dataLength) ==
    CHOOSE k \in 0..dataLength :
        /\ k ^ 5 * totalBars ^ 6 <= dataLength ^ 5 * (linearIndex + 1) ^ 6
        /\ (k = dataLength \/
            (k + 1) ^ 5 * totalBars ^ 6 > dataLength ^ 5 * (linearIndex + 1) ^ 6)

\* Math.floor(Math.pow(linearIndex / totalBars, 1.2) * dataLength), for
\* 0 <= linearIndex <= totalBars: the k with k <= (i/t)^(6/5) * n < k + 1, that is
\* k^5 * t^6 <= n^5 * i^6 < (k+1)^5 * t^6
getLogarithmicIndex(linearIndex, totalBars, dataLength) ==
    CHOOSE k \in 0..dataLength :
        /\ k ^ 5 * totalBars ^ 6 <= dataLength ^ 5 * linearIndex ^ 6
        /\ (k + 1) ^ 5 * totalBars ^ 6 > dataLength ^ 5 * linearIndex ^ 6

getTrebleEnergy(data) ==
    LET trebleStart == (Len(data) * 7) \div 10
        count == Len(data) - trebleStart
    IN  IF count > 0
        THEN ((SumTo(data, Len(data)) - SumTo(data, trebleStart)) * 1000) \div (count * 255)
        ELSE 0

\* ---------------------------------------------------------------------------
\* The record of a render call
\* ---------------------------------------------------------------------------
NoTargets == <<>>

\* renderer, data, config, dims, dt: the call; init: the call (re)built the mode's
\* arrays; outcome: "ok" or "throw"; drawn: what reached the canvas; targets: the
\* amplitude targets of the bars, and for ambiance the alpha of each particle of the
\* pool that was drawn (NULL for one that was not); resumed: the first call since the
\* mode was reselected
CallRecord(m, data, config, dims, dt, init, outcome, drawn, targets) ==
    [renderer |-> m, data |-> data, config |-> config, dims |-> dims, dt |-> dt,
     init |-> init, outcome |-> outcome, drawn |-> drawn, targets |-> targets,
     resumed |-> m \in reselected]

\* ---------------------------------------------------------------------------
\* bars.ts
\* ---------------------------------------------------------------------------
BarsDefaultConfig ==
    [barCount |-> BarCount, barWidthRatio |-> 750, showReflection |-> TRUE, smoothing |-> 300]

\* the indices that draw a random number: all n of them, or none
Draws(needed, n) == IF needed THEN 1..n ELSE {}

\* lines 35-37: previousHeights is rebuilt, all zero, when its length is not barCount
BarsInitHeights(prev, barCount) ==
    IF Len(prev) # barCount THEN [i \in 1..barCount |-> 0] ELSE prev

\* offsets that are re-sampled in every call
OffsetsAlwaysDue(now, last, avg) == TRUE

\* line 44: now - lastOffsetUpdate > 30 + (1 - averageFrequency) * 50
OffsetsDue(now, last, avg) == (now - last) * 1000 > 30000 + (1000 - avg) * 50

\* lines 47-48: one offset after a re-sampling with the draw r
ResampleOffset(o, r) == Max(0, Min(1000, o + (r - 500) \div 2))

\* an amplitude without the floor of 0.05
BarAmplitudeNoFloor(avg, offset) ==
    LET boostedFreq == (Sqrt(avg) * 1500) \div 1000
        randomVariation == 400 + (offset * 1400) \div 1000
    IN  Min(1000, (boostedFreq * randomVariation) \div 1000)

\* lines 61-63: the amplitude of a bar
BarAmplitude(avg, offset) ==
    LET boostedFreq == (Sqrt(avg) * 1500) \div 1000
        randomVariation == 400 + (offset * 1400) \div 1000
    IN  Min(1000, (boostedFreq * randomVariation) \div 1000 + 50)

\* lines 56, 66: the target height of a bar
BarTarget(avg, offset, height) ==
    LET maxBarHeight == (height * 850) \div 1000
    IN  (BarAmplitude(avg, offset) * maxBarHeight) \div 1000

\* a smoothing that weights the step by 1 + smoothing
SmoothHeightOvershoot(prev, target, smoothing) ==
    prev + ((target - prev) * (1000 + smoothing)) \div 1000

\* line 69: the smoothed height
SmoothHeight(prev, target, smoothing) ==
    prev + ((target - prev) * (1000 - smoothing)) \div 1000

\* new Array(barCount) raises a RangeError for a negative length
ArrayThrows(n) == n < 0

BarsStep(data, config, dims, dt) ==
    LET barCount == config.barCount
        avg == data.averageFrequency
    IN  IF ArrayThrows(barCount)
        THEN /\ UNCHANGED barsVars
             /\ lastCall' = CallRecord("bars", data, config, dims, dt, FALSE, "throw", {},
                                       NoTargets)
        ELSE \E init \in [Draws(Len(barsOffsets) # barCount, barCount) -> RandVals],
                draw \in [Draws(OffsetsDue(DateNow, barsLastOffsetUpdate, avg), barCount)
                              -> RandVals] :
             LET heights0 == BarsInitHeights(previousHeights, barCount)
                 offsets0 == IF Len(barsOffsets) # barCount THEN init ELSE barsOffsets
                 due == OffsetsDue(DateNow, barsLastOffsetUpdate, avg)
                 offsets1 == IF due
                             THEN [i \in 1..barCount |-> ResampleOffset(offsets0[i], draw[i])]
                             ELSE offsets0
                 targets == [i \in 1..barCount |-> BarTarget(avg, offsets1[i], dims.height)]
             IN  /\ barsOffsets' = offsets1
                 /\ barsLastOffsetUpdate' = IF due THEN DateNow ELSE barsLastOffsetUpdate
                 /\ previousHeights' =
                        [i \in 1..barCount |->
                            SmoothHeight(heights0[i], targets[i], config.smoothing)]
                 /\ lastCall' = CallRecord("bars", data, config, dims, dt,
                                           Len(previousHeights) # barCount, "ok",
                                           {"bars", "baseline"}, targets)

\* ---------------------------------------------------------------------------
\* waveform.ts
\* ---------------------------------------------------------------------------
WaveformDefaultConfig == [lineWidth |-> 2500, glowIntensity |-> 10000, fillMode |-> TRUE]

\* lines 28-37 return after the idle line; lines 39-141 draw the rest
WaveformDrawn(data, config) ==
    IF Len(data.timeDomainData) = 0
    THEN {"idleLine"}
    ELSE {"trace", "core", "centerLine", "grid"}
             \cup (IF config.fillMode THEN {"fill"} ELSE {})

WaveformStep(data, config, dims, dt) ==
    lastCall' = CallRecord("waveform", data, config, dims, dt, FALSE, "ok",
                           WaveformDrawn(data, config), NoTargets)

\* ---------------------------------------------------------------------------
\* Canvas 2D: the calls that raise
\* ---------------------------------------------------------------------------
\* createRadialGradient raises a TypeError for a non-finite argument and an
\* IndexSizeError for a negative radius
RadialGradientThrows(x, y, r) == x = NaN \/ y = NaN \/ r = NaN \/ r < 0

\* arc raises an IndexSizeError for a negative radius
ArcThrows(r) == r # NaN /\ r < 0

\* ---------------------------------------------------------------------------
\* scope.ts
\* ---------------------------------------------------------------------------
ScopeDefaultConfig ==
    [barCount |-> BarCount, baseRadius |-> 220, maxBarHeight |-> 180, rotationSpeed |-> 150,
     barWidth |-> 2000]

\* createTriangle: a position on the surface and a drift of at most 0.25 px a frame
createTriangle(width, height, rx, ry, rvx, rvy) ==
    [x |-> (rx * width) \div 1000, y |-> (ry * height) \div 1000,
     vx |-> (rvx - 500) \div 2, vy |-> (rvy - 500) \div 2]

WrapCoord(c, extent) ==
    IF c < -50000 THEN extent + 50000
    ELSE IF c > extent + 50000 THEN -50000 ELSE c

\* lines 109-117: one triangle after a frame
MoveTriangle(tri, avg, width, height) ==
    [tri EXCEPT !.x = WrapCoord(tri.x + tri.vx + (avg * tri.vx * 2) \div 1000, width),
                !.y = WrapCoord(tri.y + tri.vy + (avg * tri.vy * 2) \div 1000, height)]

\* a ring that turns at the configured rate whatever the signal
RotationStepConstantRate(rot, rotationSpeed, dt, avg) == rot + rotationSpeed * dt

\* line 99: rotation += rotationSpeed * deltaTime * 0.001 * (1 + averageFrequency)
RotationStep(rot, rotationSpeed, dt, avg) ==
    rot + (rotationSpeed * dt * (1000 + avg)) \div 1000

ScopeStep(data, config, dims, dt) ==
    LET barCount == config.barCount
        avg == data.averageFrequency
        minDimension == Min(dims.width, dims.height)
        baseR == (minDimension * config.baseRadius) \div 1000
        bgThrows == RadialGradientThrows(dims.width \div 2, dims.height \div 2,
                                         (Max(dims.width, dims.height) * 700) \div 1000)
        T == Draws(~scopeInitialized, TrianglePool)
    IN  \E rx \in [T -> FixedRand], ry \in [T -> FixedRand],
           rvx \in [T -> FixedRand], rvy \in [T -> FixedRand] :
        LET tris0 == IF scopeInitialized THEN triangles
                     ELSE [i \in 1..TrianglePool |->
                              createTriangle(dims.width, dims.height,
                                             rx[i], ry[i], rvx[i], rvy[i])]
        IN  IF bgThrows
            THEN /\ triangles' = tris0
                 /\ scopeInitialized' = TRUE
                 /\ UNCHANGED <<rotation, scopeTime, scopeOffsets, scopeLastOffsetUpdate>>
                 /\ lastCall' = CallRecord("scope", data, config, dims, dt,
                                           ~scopeInitialized, "throw", {}, NoTargets)
            ELSE /\ triangles' = [i \in 1..Len(tris0) |->
                                     MoveTriangle(tris0[i], avg, dims.width, dims.height)]
                 /\ scopeInitialized' = TRUE
                 /\ scopeTime' = scopeTime + dt
                 /\ rotation' = RotationStep(rotation, config.rotationSpeed, dt, avg)
                 /\ IF ArrayThrows(barCount)
                    THEN /\ UNCHANGED <<scopeOffsets, scopeLastOffsetUpdate>>
                         /\ lastCall' = CallRecord("scope", data, config, dims, dt,
                                                   ~scopeInitialized, "throw",
                                                   {"background", "triangles"}, NoTargets)
                    ELSE \E init \in [Draws(Len(scopeOffsets) # barCount, barCount)
                                          -> RandVals],
                            draw \in [Draws(OffsetsDue(DateNow, scopeLastOffsetUpdate,
                                                       avg), barCount) -> RandVals] :
                         LET offsets0 == IF Len(scopeOffsets) # barCount
                                         THEN init ELSE scopeOffsets
                             due == OffsetsDue(DateNow, scopeLastOffsetUpdate, avg)
                             offsets1 ==
                                 IF due
                                 THEN [i \in 1..barCount |->
                                          ResampleOffset(offsets0[i], draw[i])]
                                 ELSE offsets0
                         IN  /\ scopeOffsets' = offsets1
                             /\ scopeLastOffsetUpdate' =
                                    IF due THEN DateNow ELSE scopeLastOffsetUpdate
                             /\ lastCall' =
                                    IF ArcThrows(baseR)
                                    THEN CallRecord("scope", data, config, dims, dt,
                                                    ~scopeInitialized, "throw",
                                                    {"background", "triangles", "ring"},
                                                    NoTargets)
                                    ELSE CallRecord("scope", data, config, dims, dt,
                                                    ~scopeInitialized, "ok",
                                                    {"background", "triangles", "ring",
                                                     "baseCircle", "innerGlow"},
                                                    [i \in 1..barCount |->
                                                        BarAmplitude(avg, offsets1[i])])

\* ---------------------------------------------------------------------------
\* NaN-propagating arithmetic of the values the bass energy flows into
\* ---------------------------------------------------------------------------
NAdd(a, b) == IF a = NaN \/ b = NaN THEN NaN ELSE a + b
\* the product of two values in thousandths
NMul(a, b) == IF a = NaN \/ b = NaN THEN NaN ELSE (a * b) \div 1000

\* Math.sin of an angle in thousandths of a radian, in thousandths: a
\* piecewise-linear wave of the same period, zeros and extrema
Sin(a) ==
    LET t == a % 6284
    IN  IF t <= 1571 THEN (t * 1000) \div 1571
        ELSE IF t <= 4713 THEN ((3142 - t) * 1000) \div 1571
        ELSE ((t - 6284) * 1000) \div 1571
NSin(a) == IF a = NaN THEN NaN ELSE Sin(a)
NCos(a) == IF a = NaN THEN NaN ELSE Sin(a + 1571)

\* ---------------------------------------------------------------------------
\* ambiance.ts
\* ---------------------------------------------------------------------------
AmbianceDefaultConfig ==
    [particleCount |-> ParticleCount, maxSize |-> 35000, minSize |-> 8000, flowSpeed |-> 1200,
     reactivity |-> 1500]

\* lines 42-62
createParticle(width, height, config, rs, rx, ry, rvx, rvy, rl) ==
    LET baseSize == config.minSize + (rs * (config.maxSize - config.minSize)) \div 1000
    IN  [x |-> (rx * width) \div 1000, y |-> (ry * height) \div 1000,
         vx |-> ((((rvx - 500) * config.flowSpeed) \div 1000) * 800) \div 1000,
         vy |-> ((((rvy - 500) * config.flowSpeed) \div 1000) * 800) \div 1000,
         size |-> baseSize, baseSize |-> baseSize,
         life |-> 0, maxLife |-> 1500 + (rl * 800) \div 1000]

\* the six draws of one createParticle call
ParticleDraws == [rs : FixedRand, rx : FixedRand, ry : FixedRand, rvx : RandVals,
                  rvy : FixedRand, rl : FixedRand]

SpawnParticle(width, height, config, d) ==
    createParticle(width, height, config, d.rs, d.rx, d.ry, d.rvx, d.rvy, d.rl)

\* lines 34-40: initParticles pushes one particle for each i < count
initParticles(width, height, count, config, d) ==
    [i \in 1..Max(count, 0) |-> SpawnParticle(width, height, config, d[i])]

\* lines 107-110
WrapParticle(c, extent) ==
    IF c = NaN THEN NaN
    ELSE IF c < -30000 THEN extent + 20000
    ELSE IF c > extent + 30000 THEN -20000 ELSE c

\* lines 97-127: one particle that stays alive, after a frame
MoveParticle(p, time, bassEnergy, trebleEnergy, config, width, height, dt) ==
    LET bassReaction == NMul(bassEnergy, config.reactivity)
        trebleReaction == (trebleEnergy * config.reactivity) \div 1000
        speedMultiplier == 1000 + trebleReaction \div 2
        x0 == WrapParticle(p.x, width)
        y0 == WrapParticle(p.y, height)
        wanderAngle == NMul(NSin(NAdd(time \div 2, NMul(y0, 5))), 300)
        x1 == NAdd(x0, (((p.vx * speedMultiplier) \div 1000) * dt * 30) \div 1000)
        y1 == NAdd(NAdd(y0, (((p.vy * speedMultiplier) \div 1000) * dt * 30) \div 1000),
                   NMul(NMul(NSin(wanderAngle), bassReaction), 800))
        y2 == NAdd(y1, NMul(NSin(NAdd(time, NMul(x1, 5))), 300))
        x2 == NAdd(x1, NMul(NCos(NAdd((time * 8) \div 10, NMul(y2, 3))), 200))
    IN  [p EXCEPT !.life = p.life + 1,
                  !.size = NMul(p.baseSize, NAdd(1000, NMul(bassReaction, 3000))),
                  !.x = x2, !.y = y2]

\* a fade-out that starts from twice the opacity
ParticleAlphaSteepFadeOut(life, maxLife) ==
    IF life * 10 < maxLife THEN (life * 10 * 1000) \div maxLife
    ELSE IF life * 10 > maxLife * 8 THEN ((maxLife - life) * 10 * 1000) \div maxLife
    ELSE 1000

\* lines 130-135: alpha from lifeRatio = life / maxLife, in thousandths
ParticleAlpha(life, maxLife) ==
    IF life * 10 < maxLife THEN (life * 10 * 1000) \div maxLife
    ELSE IF life * 10 > maxLife * 8 THEN ((maxLife - life) * 5 * 1000) \div maxLife
    ELSE 1000

\* lines 149-156: the gradient of a particle that is drawn
ParticleThrows(p) == RadialGradientThrows(p.x, p.y, p.size)

\* a pool that is built once and never again
NeedsInitOnce(initialized, len, count) == ~initialized

\* line 80: the pool is rebuilt before the first frame and when the count changed
NeedsInit(initialized, len, count) == ~initialized \/ len # count

AmbianceStep(data, config, dims, dt) ==
    LET particleCount == config.particleCount
        width == dims.width
        height == dims.height
        n == Max(particleCount, 0)
        rebuild == NeedsInit(ambInitialized, Len(particles), particleCount)
        len == IF rebuild THEN n ELSE Len(particles)
        time == ambTime + dt
        bassEnergy == IF Len(data.frequencyData) > 0
                      THEN getBassEnergy(data.frequencyData) ELSE 0
        trebleEnergy == IF Len(data.frequencyData) > 0
                        THEN getTrebleEnergy(data.frequencyData) ELSE 0
    IN  \E d0 \in [1..(IF rebuild THEN n ELSE 0) -> ParticleDraws] :
        LET pool0 == IF rebuild THEN initParticles(width, height, particleCount, config, d0)
                     ELSE particles
            expired == {i \in 1..len : pool0[i].life + 1 > pool0[i].maxLife}
        IN  \E d1 \in [expired -> ParticleDraws] :
            LET after(i) == IF i \in expired
                            THEN SpawnParticle(width, height, config, d1[i])
                            ELSE MoveParticle(pool0[i], time, bassEnergy, trebleEnergy,
                                              config, width, height, dt)
                throwing == {i \in 1..len : i \notin expired /\ ParticleThrows(after(i))}
                stop == IF throwing = {} THEN len
                        ELSE CHOOSE i \in throwing : \A j \in throwing : i <= j
                bgThrows == RadialGradientThrows(width \div 2, height \div 2,
                                                 (Max(width, height) * 700) \div 1000)
                alphas == [i \in 1..len |->
                              IF i \notin expired /\ i \notin throwing /\ i <= stop
                              THEN ParticleAlpha(after(i).life, after(i).maxLife)
                              ELSE NULL]
            IN  /\ ambInitialized' = TRUE
                /\ ambTime' = time
                /\ particles' = [i \in 1..len |-> IF i <= stop THEN after(i) ELSE pool0[i]]
                /\ lastCall' = CallRecord("ambiance", data, config, dims, dt, rebuild,
                                          IF throwing # {} \/ bgThrows THEN "throw" ELSE "ok",
                                          IF throwing # {} THEN {"fade"}
                                          ELSE IF bgThrows THEN {"fade", "particles"}
                                          ELSE {"fade", "particles", "background"},
                                          alphas)

\* ---------------------------------------------------------------------------
\* visualizers/index.ts: the registry, and one render call of a registered mode
\* ---------------------------------------------------------------------------
DefaultConfigs ==
    [bars |-> BarsDefaultConfig, waveform |-> WaveformDefaultConfig,
     scope |-> ScopeDefaultConfig, ambiance |-> AmbianceDefaultConfig]

\* a renderer is handed the snapshot and the config and writes neither
BarsRender(data, config, dims, dt) ==
    /\ BarsStep(data, config, dims, dt)
    /\ analyserData' = data
    /\ UNCHANGED <<scopeVars, ambVars, defaultConfig>>

WaveformRender(data, config, dims, dt) ==
    /\ WaveformStep(data, config, dims, dt)
    /\ analyserData' = data
    /\ UNCHANGED <<barsVars, scopeVars, ambVars, defaultConfig>>

\* a scope that keeps its offsets in the array of bars
ScopeRenderSharedOffsets(data, config, dims, dt) ==
    /\ ScopeStep(data, config, dims, dt)
    /\ analyserData' = data
    /\ barsOffsets' = scopeOffsets'
    /\ UNCHANGED <<previousHeights, barsLastOffsetUpdate, ambVars, defaultConfig>>

ScopeRender(data, config, dims, dt) ==
    /\ ScopeStep(data, config, dims, dt)
    /\ analyserData' = data
    /\ UNCHANGED <<barsVars, ambVars, defaultConfig>>

AmbianceRender(data, config, dims, dt) ==
    /\ AmbianceStep(data, config, dims, dt)
    /\ analyserData' = data
    /\ UNCHANGED <<barsVars, scopeVars, defaultConfig>>

StateOf(m) ==
    CASE m = "bars" -> barsVars
      [] m = "scope" -> scopeVars
      [] m = "ambiance" -> ambVars
      [] OTHER -> <<>>

\* the private state of a mode before its first render (module initialisers)
leftState0(m) ==
    CASE m = "bars" -> <<<<>>, <<>>, 0>>
      [] m = "scope" -> <<0, 0, <<>>, FALSE, <<>>, 0>>
      [] m = "ambiance" -> <<<<>>, 0, FALSE>>
      [] OTHER -> <<>>

StateLeftBy(m) ==
    CASE m = "bars" -> barsVars'
      [] m = "scope" -> scopeVars'
      [] m = "ambiance" -> ambVars'
      [] OTHER -> <<>>

RenderCall(m, data, config, dims, dt) ==
    /\ CASE m = "bars" -> BarsRender(data, config, dims, dt)
         [] m = "waveform" -> WaveformRender(data, config, dims, dt)
         [] m = "scope" -> ScopeRender(data, config, dims, dt)
         [] m = "ambiance" -> AmbianceRender(data, config, dims, dt)
    /\ calls' = calls + 1
    /\ reselected' = reselected \ {m}
    /\ leftState' = [leftState EXCEPT ![m] = StateLeftBy(m)]

NoRender ==
    UNCHANGED <<barsVars, scopeVars, ambVars, defaultConfig, analyserData, lastCall, calls,
                reselected, leftState>>

\* ---------------------------------------------------------------------------
\* useAnalyser.getData: what a frame can be handed
\* ---------------------------------------------------------------------------
EmptySnapshot ==
    [frequencyData |-> <<>>, timeDomainData |-> <<>>, averageFrequency |-> 0,
     peakFrequency |-> 0]

Snapshot(freq, time) ==
    [frequencyData |-> freq, timeDomainData |-> time,
     averageFrequency |-> getAverageAmplitude(freq),
     peakFrequency |-> getPeakFrequencyIndex(freq)]

Silent10 == <<0, 0, 0, 0, 0, 0, 0, 0, 0, 0>>
Loud10 == <<255, 255, 255, 255, 255, 255, 255, 255, 255, 255>>
Short5 == <<255, 255, 0, 0, 0>>
Flat4 == <<128, 128, 128, 128>>

\* the snapshots getData returns: empty, or the analyser's arrays
AppData == {EmptySnapshot, Snapshot(Loud10, Flat4)}

\* ---------------------------------------------------------------------------
\* useAnimationFrame
\* ---------------------------------------------------------------------------
NoCall ==
    [renderer |-> "none", data |-> EmptySnapshot, config |-> <<>>,
     dims |-> [width |-> 0, height |-> 0], dt |-> 0, init |-> FALSE, outcome |-> "ok",
     drawn |-> {}, targets |-> NoTargets, resumed |-> FALSE]

NoFrame == [stamp |-> NULL, prev |-> NULL, called |-> FALSE, delta |-> 0, nth |-> 0,
            starts |-> 0, startedAt |-> 0, renders |-> 0, mode |-> "none"]

\* a cleanup that cancels nothing, and one that keeps the timestamp
CleanupQueueNoCancel(queue, request) == queue
KeepPreviousTime(prev) == prev

\* lines 157-163: the cleanup of the activation effect; the request, if any, is cancelled
\* and the remembered timestamp is dropped
CleanupQueue(queue, request) == IF request # NULL THEN queue \ {request} ELSE queue
CleanupPreviousTime(prev) == NULL

\* lines 152-155: the activation effect requests a frame when isActive
StartLoop(active) ==
    IF active
    THEN /\ rafSeq' = rafSeq + 1
         /\ requestRef' = rafSeq + 1
         /\ rafQueue' = CleanupQueue(rafQueue, requestRef) \cup {rafSeq + 1}
         /\ loop' = [starts |-> loop.starts + 1, delivered |-> 0,
                     prevStamp |-> NULL, startedAt |-> clock]
    ELSE /\ rafSeq' = rafSeq
         /\ requestRef' = NULL
         /\ rafQueue' = CleanupQueue(rafQueue, requestRef)
         /\ loop' = loop

\* the isActive prop changes: cleanup of the old effect, then the new effect
SetActive(b) ==
    /\ mounted
    /\ b # isActive
    /\ b => loop.starts < MaxStarts
    /\ isActive' = b
    /\ previousTimeRef' = CleanupPreviousTime(previousTimeRef)
    /\ StartLoop(b)
    /\ UNCHANGED <<mounted, mode, callbackRef, dimensionsRef, clock, lastFrame, frames>>
    /\ UNCHANGED sideVars
    /\ NoRender

Unmount ==
    /\ mounted
    /\ mounted' = FALSE
    /\ previousTimeRef' = CleanupPreviousTime(previousTimeRef)
    /\ StartLoop(FALSE)
    /\ UNCHANGED <<isActive, mode, callbackRef, dimensionsRef, clock, lastFrame, frames>>
    /\ UNCHANGED sideVars
    /\ NoRender

\* a callbackRef that keeps the closure of the first render
CallbackStale(m) == callbackRef

\* lines 139-141: the closure of the new mode is stored in callbackRef when the
\* mode prop changes (the render callback depends on [getData, mode])
CallbackAfterModeChange(m) == m

\* a mode change that also resets the module state of the mode it selects
SetModeResetting(m) ==
    /\ mounted
    /\ m # mode
    /\ mode' = m
    /\ callbackRef' = CallbackAfterModeChange(m)
    /\ reselected' = IF leftState[m] # leftState0(m) THEN reselected \cup {m}
                     ELSE reselected
    /\ IF m = "bars"
       THEN previousHeights' = <<>> /\ barsOffsets' = <<>> /\ barsLastOffsetUpdate' = 0
       ELSE UNCHANGED barsVars
    /\ IF m = "scope"
       THEN /\ rotation' = 0 /\ scopeTime' = 0 /\ triangles' = <<>>
            /\ scopeInitialized' = FALSE /\ scopeOffsets' = <<>>
            /\ scopeLastOffsetUpdate' = 0
       ELSE UNCHANGED scopeVars
    /\ IF m = "ambiance"
       THEN particles' = <<>> /\ ambTime' = 0 /\ ambInitialized' = FALSE
       ELSE UNCHANGED ambVars
    /\ UNCHANGED <<mounted, isActive, requestRef, previousTimeRef, rafQueue, rafSeq,
                   dimensionsRef, clock, lastFrame, frames, loop>>
    /\ UNCHANGED <<defaultConfig, analyserData, lastCall, calls, leftState, sideVars>>

SetMode(m) ==
    /\ mounted
    /\ m # mode
    /\ mode' = m
    /\ callbackRef' = CallbackAfterModeChange(m)
    /\ reselected' = IF leftState[m] # leftState0(m) THEN reselected \cup {m}
                     ELSE reselected
    /\ UNCHANGED <<mounted, isActive, requestRef, previousTimeRef, rafQueue, rafSeq,
                   dimensionsRef, clock, lastFrame, frames, loop>>
    /\ UNCHANGED <<barsVars, scopeVars, ambVars, defaultConfig, analyserData, lastCall,
                   calls, leftState, sideVars>>

Tick ==
    /\ clock < MaxTicks * TickMs
    /\ clock' = clock + TickMs
    /\ UNCHANGED <<hookVars, lastFrame, frames, loop, sideVars>>
    /\ NoRender

\* a loop that calls back on every frame
CallbackAlways(prev) == TRUE

\* lines 144-147: the callback runs when a previous timestamp is remembered
CallbackDue(prev) == prev # NULL
DeltaTime(time, prev) == time - prev

\* lines 143-150 (animate) with VisualizerCanvas.render (lines 57-74) as the callback
Frame ==
    /\ frames < MaxFrames
    /\ CallbackDue(previousTimeRef) => calls < MaxCalls
    /\ \E id \in rafQueue, data \in AppData :
        LET time == clock + FrameMs
            due == CallbackDue(previousTimeRef)
            delta == DeltaTime(time, previousTimeRef)
        IN  /\ IF due
               THEN RenderCall(callbackRef, data, defaultConfig[callbackRef],
                               dimensionsRef, delta)
               ELSE NoRender
            /\ IF due /\ lastCall'.outcome = "throw"
               THEN /\ rafQueue' = rafQueue \ {id}
                    /\ UNCHANGED <<previousTimeRef, requestRef, rafSeq>>
               ELSE /\ previousTimeRef' = time
                    /\ rafSeq' = rafSeq + 1
                    /\ requestRef' = rafSeq + 1
                    /\ rafQueue' = (rafQueue \ {id}) \cup {rafSeq + 1}
            /\ frames' = frames + 1
            /\ lastFrame' = [stamp |-> time, prev |-> loop.prevStamp, called |-> due,
                             delta |-> IF due THEN delta ELSE 0,
                             nth |-> loop.delivered + 1, starts |-> loop.starts,
                             startedAt |-> loop.startedAt, renders |-> calls' - calls,
                             mode |-> mode]
            /\ loop' = [loop EXCEPT !.delivered = loop.delivered + 1, !.prevStamp = time]
            /\ clock' = time
    /\ UNCHANGED <<mounted, isActive, mode, callbackRef, dimensionsRef, sideVars>>

\* ---------------------------------------------------------------------------
\* Direct render calls, as the renderer tests make them
\* ---------------------------------------------------------------------------
DataVals == AppData \cup {Snapshot(Silent10, Flat4), Snapshot(Short5, <<>>)}

\* the configs a mode is called with: its default, and variations of it
ConfigVals(m) ==
    CASE m = "bars" ->
            {BarsDefaultConfig, [BarsDefaultConfig EXCEPT !.barCount = BarCount + 1],
             [BarsDefaultConfig EXCEPT !.smoothing = 0],
             [BarsDefaultConfig EXCEPT !.smoothing = 900]}
      [] m = "waveform" ->
            {WaveformDefaultConfig, [WaveformDefaultConfig EXCEPT !.fillMode = FALSE]}
      [] m = "scope" -> {ScopeDefaultConfig, [ScopeDefaultConfig EXCEPT !.barCount = BarCount + 1]}
      [] m = "ambiance" ->
            {AmbianceDefaultConfig, [AmbianceDefaultConfig EXCEPT !.particleCount = 0],
             [AmbianceDefaultConfig EXCEPT !.particleCount = ParticleCount + 1]}

DirectRender(m, datas, configs, surfaces, dts) ==
    /\ calls < MaxCalls
    /\ \E data \in datas, config \in configs, dims \in surfaces, dt \in dts :
           RenderCall(m, data, config, dims, dt)
    /\ UNCHANGED <<hookVars, clock, lastFrame, frames, loop, sideVars>>

\* ---------------------------------------------------------------------------
\* useAnalyser
\* ---------------------------------------------------------------------------
\* the canvas and the renderers stay as they are
AppUnchanged ==
    UNCHANGED <<hookVars, clock, barsVars, scopeVars, ambVars, defaultConfig, analyserData,
                obsVars>>

\* analyser nodes, named by their fftSize; frequencyBinCount is half of it
AnalyserNodes == {4, 20}
fftSize(analyser) == analyser
frequencyBinCount(analyser) == analyser \div 2

\* an array object: its identity and its length; NoArray stands for null
NewArray(id, len) == [id |-> id, len |-> len]
NoArray == [id |-> NULL, len |-> 0]

\* the levels getByteFrequencyData writes, the same in every bin
ByteLevels == {0, 255}
Bytes(len, level) == [i \in 1..len |-> level]

NoGet ==
    [analyser |-> NULL, frequencyData |-> NoArray, timeDomainData |-> NoArray,
     bytes |-> <<>>, averageFrequency |-> 0, peakFrequency |-> 0, nth |-> 0,
     prevAttached |-> FALSE, prevFrequencyData |-> NoArray,
     prevTimeDomainData |-> NoArray]

InitAnalyser ==
    /\ analyserRef = NULL /\ frequencyDataRef = NoArray /\ timeDomainDataRef = NoArray
    /\ allocSeq = 0 /\ lastGet = NoGet /\ gets = 0 /\ sets = 0 /\ getsSinceSet = 0

\* a frequency array as long as the time-domain array
NewFrequencyArrayFft(analyser) == fftSize(analyser)

\* line 110: new Uint8Array(analyser.frequencyBinCount)
NewFrequencyArray(analyser) == frequencyBinCount(analyser)

\* lines 105-116
SetAnalyser(analyser) ==
    /\ sets < MaxSets
    /\ analyserRef' = analyser
    /\ IF analyser # NULL
       THEN /\ frequencyDataRef' = NewArray(allocSeq + 1, NewFrequencyArray(analyser))
            /\ timeDomainDataRef' = NewArray(allocSeq + 2, fftSize(analyser))
            /\ allocSeq' = allocSeq + 2
       ELSE /\ frequencyDataRef' = NoArray
            /\ timeDomainDataRef' = NoArray
            /\ allocSeq' = allocSeq
    /\ sets' = sets + 1
    /\ getsSinceSet' = 0
    /\ UNCHANGED <<lastGet, gets>>
    /\ UNCHANGED <<micVars, audioVars, lastHelper, canvasVars, flowVars>>
    /\ AppUnchanged

\* line 124: !analyser || !frequencyData || !timeDomainData
NotInitialized(analyser, frequencyData, timeDomainData) ==
    analyser = NULL \/ frequencyData = NoArray \/ timeDomainData = NoArray

\* lines 118-143
GetData ==
    /\ gets < MaxGets
    /\ gets' = gets + 1
    /\ getsSinceSet' = getsSinceSet + 1
    /\ IF NotInitialized(analyserRef, frequencyDataRef, timeDomainDataRef)
       THEN /\ allocSeq' = allocSeq + 2
            /\ lastGet' = [analyser |-> analyserRef,
                           frequencyData |-> NewArray(allocSeq + 1, 0),
                           timeDomainData |-> NewArray(allocSeq + 2, 0),
                           bytes |-> <<>>,
                           averageFrequency |-> 0, peakFrequency |-> 0,
                           nth |-> getsSinceSet + 1,
                           prevAttached |-> gets > 0 /\ lastGet.analyser # NULL,
                           prevFrequencyData |-> lastGet.frequencyData,
                           prevTimeDomainData |-> lastGet.timeDomainData]
       ELSE /\ allocSeq' = allocSeq
            /\ \E level \in ByteLevels :
                   LET bytes == Bytes(frequencyDataRef.len, level)
                   IN  lastGet' = [analyser |-> analyserRef,
                                   frequencyData |-> frequencyDataRef,
                                   timeDomainData |-> timeDomainDataRef,
                                   bytes |-> bytes,
                                   averageFrequency |-> getAverageAmplitude(bytes),
                                   peakFrequency |-> getPeakFrequencyIndex(bytes),
                                   nth |-> getsSinceSet + 1,
                                   prevAttached |-> gets > 0 /\ lastGet.analyser # NULL,
                                   prevFrequencyData |-> lastGet.frequencyData,
                                   prevTimeDomainData |-> lastGet.timeDomainData]
    /\ UNCHANGED <<analyserRef, frequencyDataRef, timeDomainDataRef, sets>>
    /\ UNCHANGED <<micVars, audioVars, lastHelper, canvasVars, flowVars>>
    /\ AppUnchanged

\* ---------------------------------------------------------------------------
\* useMicrophone
\* ---------------------------------------------------------------------------
\* the error names getMicrophoneErrorMessage knows, and the names a rejection carries
KnownErrorNames ==
    {"NotFoundError", "NotAllowedError", "NotReadableError", "SecurityError",
     "OverconstrainedError"}
ErrorNames == KnownErrorNames \cup {"AbortError"}

\* a mapping that passes every name on
ErrorNameAsType(name) == name

\* audioHelpers lines 146-179: the type of the error shown for a rejection
getMicrophoneErrorMessage(name) == IF name \in KnownErrorNames THEN name ELSE "Unknown"

\* lines 29-35
MicState0 ==
    [stream |-> NULL, permissionState |-> "prompt", isActive |-> FALSE,
     isRequesting |-> FALSE, error |-> "null"]

NoMicOp ==
    [op |-> "none", name |-> "none", returned |-> NULL, started |-> FALSE,
     before |-> MicState0, beforeRef |-> NULL]

MicOp(op, name, returned, started) ==
    [op |-> op, name |-> name, returned |-> returned, started |-> started,
     before |-> micState, beforeRef |-> streamRef]

\* the hook after its mount effects: without getUserMedia the second effect (lines
\* 64-86) has set permissionState and error
InitMicrophone(available) ==
    /\ streamRef = NULL
    /\ mediaDevices = available
    /\ micState = IF mediaDevices THEN MicState0
                  ELSE [MicState0 EXCEPT !.permissionState = "unavailable",
                                         !.error = "SecurityError"]
    /\ pendingRequests = {} /\ liveStreams = {} /\ micSeq = 0 /\ stops = 0
    /\ lastMic = NoMicOp

MicUnchanged ==
    UNCHANGED <<analyserVars, audioVars, lastHelper, canvasVars, flowVars>> /\ AppUnchanged

\* lines 43-56: the Permissions API reports the permission, at mount and on change
PermissionChange(p) ==
    /\ p # micState.permissionState
    /\ micState' = [micState EXCEPT !.permissionState = p]
    /\ lastMic' = MicOp("permission", p, NULL, FALSE)
    /\ UNCHANGED <<streamRef, mediaDevices, pendingRequests, liveStreams, micSeq, stops>>
    /\ MicUnchanged

\* a hook that never finds the microphone active
NeverAlreadyActive(ref, active) == FALSE

\* line 90: streamRef.current && state.isActive
AlreadyActive(ref, active) == ref # NULL /\ active

\* lines 88-114: requestMicrophone up to its await
RequestMicrophone ==
    IF AlreadyActive(streamRef, micState.isActive)
    THEN /\ lastMic' = MicOp("request", "none", streamRef, FALSE)
         /\ UNCHANGED <<streamRef, micState, mediaDevices, pendingRequests, liveStreams,
                        micSeq, stops>>
         /\ MicUnchanged
    ELSE IF ~mediaDevices
    THEN /\ micState' = [micState EXCEPT !.permissionState = "unavailable",
                                         !.error = "SecurityError"]
         /\ lastMic' = MicOp("request", "none", NULL, FALSE)
         /\ UNCHANGED <<streamRef, mediaDevices, pendingRequests, liveStreams, micSeq,
                        stops>>
         /\ MicUnchanged
    ELSE /\ micSeq < MaxRequests
         /\ micState' = [micState EXCEPT !.isRequesting = TRUE, !.error = "null"]
         /\ micSeq' = micSeq + 1
         /\ pendingRequests' = pendingRequests \cup {micSeq + 1}
         /\ lastMic' = MicOp("request", "none", NULL, TRUE)
         /\ UNCHANGED <<streamRef, mediaDevices, liveStreams, stops>>
         /\ MicUnchanged

\* lines 117-135: getUserMedia resolves with a stream, named as its request
ResolveRequest(id) ==
    /\ id \in pendingRequests
    /\ pendingRequests' = pendingRequests \ {id}
    /\ liveStreams' = liveStreams \cup {id}
    /\ streamRef' = id
    /\ micState' = [stream |-> id, permissionState |-> "granted", isActive |-> TRUE,
                    isRequesting |-> FALSE, error |-> "null"]
    /\ lastMic' = MicOp("resolve", "none", id, FALSE)
    /\ UNCHANGED <<mediaDevices, micSeq, stops>>
    /\ MicUnchanged

\* lines 136-150: getUserMedia rejects with an error of the given name
RejectRequest(id, name) ==
    /\ id \in pendingRequests
    /\ pendingRequests' = pendingRequests \ {id}
    /\ micState' = [micState EXCEPT
                        !.stream = NULL,
                        !.permissionState = IF name = "NotAllowedError" THEN "denied"
                                            ELSE micState.permissionState,
                        !.isActive = FALSE,
                        !.isRequesting = FALSE,
                        !.error = getMicrophoneErrorMessage(name)]
    /\ lastMic' = MicOp("reject", name, NULL, FALSE)
    /\ UNCHANGED <<streamRef, mediaDevices, liveStreams, micSeq, stops>>
    /\ MicUnchanged

\* a stop that leaves the tracks running
StopNoTracks(live, ref) == live

\* lines 154-157: every track of the held stream is stopped
StopTracks(live, ref) == IF ref # NULL THEN live \ {ref} ELSE live

\* lines 153-165
StopMicrophone ==
    /\ stops < MaxStops
    /\ stops' = stops + 1
    /\ liveStreams' = StopTracks(liveStreams, streamRef)
    /\ streamRef' = NULL
    /\ micState' = [micState EXCEPT !.stream = NULL, !.isActive = FALSE,
                                    !.isRequesting = FALSE]
    /\ lastMic' = MicOp("stop", "none", NULL, FALSE)
    /\ UNCHANGED <<mediaDevices, pendingRequests, micSeq>>
    /\ MicUnchanged

\* ---------------------------------------------------------------------------
\* useAudioContext
\* ---------------------------------------------------------------------------
\* lines 23-28
AudioState0 == [audioContext |-> NULL, analyser |-> NULL, isInitialized |-> FALSE,
                error |-> "null"]

\* the record of an operation: what it returned or threw, whether it made a context
\* or a source, whether it found a context that was not closed (line 32), the context
\* whose resume() it awaited, the hook before it, and whether the hook was
\* uninitialised (no initializeAudioContext succeeded since the start or the last
\* cleanup) once it was over
AudioOp(op, returned, thrown, created, alive, awaited, uninitialised) ==
    [op |-> op, returned |-> returned, thrown |-> thrown, created |-> created,
     alive |-> alive, awaited |-> awaited, uninitialised |-> uninitialised,
     before |-> audioState, beforeRef |-> audioContextRef,
     beforeAnalyser |-> audioAnalyserRef, beforeSource |-> sourceRef,
     beforeConnected |-> connectedSources]

InitAudioContext ==
    /\ audioContextRef = NULL /\ audioAnalyserRef = NULL /\ sourceRef = NULL
    /\ audioState = AudioState0
    /\ contextState = << >> /\ pendingResumes = {} /\ connectedSources = {}
    /\ sourceSeq = 0 /\ cleanups = 0
    /\ lastAudio = [op |-> "none", returned |-> NULL, thrown |-> FALSE, created |-> FALSE,
                    alive |-> FALSE, awaited |-> NULL, uninitialised |-> TRUE,
                    before |-> AudioState0, beforeRef |-> NULL, beforeAnalyser |-> NULL,
                    beforeSource |-> NULL, beforeConnected |-> {}]

AudioUnchanged ==
    UNCHANGED <<analyserVars, micVars, lastHelper, canvasVars, flowVars>> /\ AppUnchanged

\* line 32: a context exists and is not closed
ContextAlive(ref) == ref # NULL /\ contextState[ref] # "closed"

\* lines 30-68: initializeAudioContext up to its await or its return
InitializeAudioContext ==
    IF ContextAlive(audioContextRef)
    THEN IF contextState[audioContextRef] = "suspended"
         THEN \* line 35: await resume()
              /\ pendingResumes' = pendingResumes \cup {audioContextRef}
              /\ lastAudio' = AudioOp("initialize", NULL, FALSE, FALSE, TRUE, audioContextRef,
                                      lastAudio.uninitialised)
              /\ UNCHANGED <<audioContextRef, audioAnalyserRef, sourceRef, audioState,
                             contextState, connectedSources, sourceSeq, cleanups>>
              /\ AudioUnchanged
         ELSE /\ lastAudio' = AudioOp("initialized", audioContextRef, FALSE, FALSE, TRUE,
                                      NULL, lastAudio.uninitialised)
              /\ UNCHANGED <<audioContextRef, audioAnalyserRef, sourceRef, audioState,
                             contextState, pendingResumes, connectedSources, sourceSeq,
                             cleanups>>
              /\ AudioUnchanged
    ELSE \/ \* lines 44-62: a new context, suspended or running as the browser decides
            \E st \in {"suspended", "running"} :
              /\ Len(contextState) < MaxContexts
              /\ contextState' = Append(contextState, st)
              /\ audioContextRef' = Len(contextState) + 1
              /\ audioAnalyserRef' = Len(contextState) + 1
              /\ audioState' = [audioContext |-> Len(contextState) + 1,
                                analyser |-> Len(contextState) + 1,
                                isInitialized |-> TRUE, error |-> "null"]
              /\ lastAudio' = AudioOp("initialized", Len(contextState) + 1, FALSE, TRUE,
                                      FALSE, NULL, FALSE)
              /\ UNCHANGED <<sourceRef, pendingResumes, connectedSources, sourceSeq,
                             cleanups>>
              /\ AudioUnchanged
         \/ \* lines 63-67: the constructor throws
            /\ audioState' = [audioState EXCEPT !.error = "Error", !.isInitialized = FALSE]
            /\ lastAudio' = AudioOp("initialized", NULL, TRUE, FALSE, FALSE, NULL,
                                    lastAudio.uninitialised)
            /\ UNCHANGED <<audioContextRef, audioAnalyserRef, sourceRef, contextState,
                           pendingResumes, connectedSources, sourceSeq, cleanups>>
            /\ AudioUnchanged

\* lines 35-37: the awaited resume() settles and the call returns what
\* audioContextRef holds by then. The promise of a context that was closed in the
\* meantime rejects, and the rejection leaves the call, or it had resolved before
\* the close.
ResumeSettles(c, resolved) ==
    /\ c \in pendingResumes
    /\ pendingResumes' = pendingResumes \ {c}
    /\ resolved \/ contextState[c] = "closed"
    /\ IF resolved
       THEN /\ contextState' = IF contextState[c] = "closed" THEN contextState
                               ELSE [contextState EXCEPT ![c] = "running"]
            /\ lastAudio' = AudioOp("initialized", audioContextRef, FALSE, FALSE, TRUE,
                                    c, lastAudio.uninitialised)
       ELSE /\ lastAudio' = AudioOp("initialized", NULL, TRUE, FALSE, TRUE, c,
                                    lastAudio.uninitialised)
            /\ UNCHANGED contextState
    /\ UNCHANGED <<audioContextRef, audioAnalyserRef, sourceRef, audioState,
                   connectedSources, sourceSeq, cleanups>>
    /\ AudioUnchanged

\* a holder of the context (state.audioContext, or the value initializeAudioContext
\* returned) closes it
CloseOutside(c) ==
    /\ c \in 1..Len(contextState)
    /\ contextState[c] # "closed"
    /\ contextState' = [contextState EXCEPT ![c] = "closed"]
    /\ lastAudio' = AudioOp("close", NULL, FALSE, FALSE, FALSE, NULL,
                            lastAudio.uninitialised)
    /\ UNCHANGED <<audioContextRef, audioAnalyserRef, sourceRef, audioState,
                   pendingResumes, connectedSources, sourceSeq, cleanups>>
    /\ AudioUnchanged

\* a guard that looks at the context only
ContextMissing(ctxRef, anRef) == ctxRef = NULL

\* line 71
ContextNotInitialized(ctxRef, anRef) == ctxRef = NULL \/ anRef = NULL

\* source.disconnect()
Disconnect(connected, source) == connected \ {source}

\* lines 70-90: connectSource; created says whether createMediaStreamSource returns
ConnectSource(created) ==
    IF ContextNotInitialized(audioContextRef, audioAnalyserRef)
    THEN /\ lastAudio' = AudioOp("connect", NULL, FALSE, FALSE, FALSE, NULL,
                                 lastAudio.uninitialised)
         /\ UNCHANGED <<audioContextRef, audioAnalyserRef, sourceRef, audioState,
                        contextState, pendingResumes, connectedSources, sourceSeq,
                        cleanups>>
         /\ AudioUnchanged
    ELSE /\ sourceSeq < MaxSources
         /\ IF created
            THEN /\ sourceSeq' = sourceSeq + 1
                 /\ sourceRef' = sourceSeq + 1
                 /\ connectedSources' =
                        Disconnect(connectedSources, sourceRef) \cup {sourceSeq + 1}
                 /\ lastAudio' = AudioOp("connect", audioAnalyserRef, FALSE, TRUE, FALSE,
                                         NULL, lastAudio.uninitialised)
            ELSE /\ connectedSources' = Disconnect(connectedSources, sourceRef)
                 /\ lastAudio' = AudioOp("connect", NULL, FALSE, FALSE, FALSE, NULL,
                                         lastAudio.uninitialised)
                 /\ UNCHANGED <<sourceSeq, sourceRef>>
         /\ UNCHANGED <<audioContextRef, audioAnalyserRef, audioState, contextState,
                        pendingResumes, cleanups>>
         /\ AudioUnchanged

\* lines 92-114: cleanup
Cleanup ==
    /\ cleanups < MaxCleanups
    /\ cleanups' = cleanups + 1
    /\ connectedSources' = Disconnect(connectedSources, sourceRef)
    /\ sourceRef' = NULL
    /\ audioAnalyserRef' = NULL
    /\ IF ContextAlive(audioContextRef)
       THEN /\ contextState' = [contextState EXCEPT ![audioContextRef] = "closed"]
            /\ audioContextRef' = NULL
       ELSE UNCHANGED <<contextState, audioContextRef>>
    /\ audioState' = AudioState0
    /\ lastAudio' = AudioOp("cleanup", NULL, FALSE, FALSE, FALSE, NULL, TRUE)
    /\ UNCHANGED <<pendingResumes, sourceSeq>>
    /\ AudioUnchanged

\* ---------------------------------------------------------------------------
\* Calls of the audio helpers
\* ---------------------------------------------------------------------------
NoHelperCall == [fn |-> "none", args |-> << >>, result |-> 0]

HelperUnchanged ==
    UNCHANGED <<analyserVars, micVars, audioVars, canvasVars, flowVars>> /\ AppUnchanged

ByteVals == {0, 100, 255}

\* the arrays getBassEnergy is called with: every array of up to MaxShortBins bins,
\* arrays of 5 and 9 bins, and arrays of 10k and 10k + 9 bins whose first k bins
\* (their bass range) take every value
BassInputs ==
    UNION {[1..n -> ByteVals] : n \in 0..MaxShortBins}
    \cup {[i \in 1..n |-> v] : n \in {5, 9}, v \in ByteVals}
    \cup UNION {UNION {{[i \in 1..(10 * k + r) |-> IF i <= k THEN bass[i] ELSE rest] :
                          bass \in [1..k -> ByteVals]} :
                        rest \in {0, 255}, r \in {0, 9}} :
                 k \in 1..MaxBassBins}

CallGetBassEnergy(data) ==
    /\ lastHelper' = [fn |-> "getBassEnergy", args |-> <<data>>,
                      result |-> getBassEnergy(data)]
    /\ HelperUnchanged

CallGetLogarithmicIndex(linearIndex, totalBars, dataLength) ==
    /\ lastHelper' = [fn |-> "getLogarithmicIndex",
                      args |-> <<linearIndex, totalBars, dataLength>>,
                      result |-> getLogarithmicIndex(linearIndex, totalBars, dataLength)]
    /\ HelperUnchanged

\* ---------------------------------------------------------------------------
\* The flowing ambiance module (part_001 lines 225-416)
\* ---------------------------------------------------------------------------
FlowingDefaultConfig ==
    [particleCount |-> ParticleCount, maxSize |-> 40000, minSize |-> 10000,
     flowSpeed |-> 3500, reactivity |-> 2000]

\* lines 259-279: the first pool is spread over the surface, a respawn starts left
\* of it
createFlowingParticle(width, height, config, randomPosition, d) ==
    LET baseSize == config.minSize + (d.rs * (config.maxSize - config.minSize)) \div 1000
    IN  [x |-> IF randomPosition THEN (d.rx * width) \div 1000
               ELSE -50000 - (d.rx * 100000) \div 1000,
         y |-> (d.ry * height) \div 1000,
         vx |-> ((1200 + (d.rvx * 800) \div 1000) * config.flowSpeed) \div 1000,
         vy |-> ((((d.rvy - 500) * config.flowSpeed) \div 1000) * 300) \div 1000,
         size |-> baseSize, baseSize |-> baseSize,
         life |-> 0, maxLife |-> 800 + (d.rl * 400) \div 1000]

FlowingDraws == [rs : FixedRand, rx : RandVals, ry : FixedRand, rvx : FixedRand,
                 rvy : FixedRand, rl : FixedRand]

\* lines 317-322, after life++: the particle left the surface or outlived maxLife
FlowingExpired(p, width, height) ==
    \/ p.x > width + 50000
    \/ p.y < -50000
    \/ p.y > height + 50000
    \/ p.life + 1 > p.maxLife

\* lines 314-342: one particle that stays, after a frame
MoveFlowingParticle(p, time, bassEnergy, trebleEnergy, config, dt) ==
    LET bassReaction == NMul(bassEnergy, config.reactivity)
        trebleReaction == (trebleEnergy * config.reactivity) \div 1000
        speedMultiplier == 1000 + trebleReaction * 2
        flowAngle == NMul(NSin(NAdd(time, NMul(p.y, 10))), 500)
        x1 == NAdd(p.x, (((p.vx * speedMultiplier) \div 1000) * dt * 50) \div 1000)
        y1 == NAdd(NAdd(p.y, (((p.vy * speedMultiplier) \div 1000) * dt * 50) \div 1000),
                   NMul(NMul(NSin(flowAngle), bassReaction), 2000))
        y2 == NAdd(y1, NMul(NSin(NAdd(time * 2, NMul(x1, 10))), 500))
    IN  [p EXCEPT !.life = p.life + 1,
                  !.size = NMul(p.baseSize, NAdd(1000, NMul(bassReaction, 3000))),
                  !.x = x1, !.y = y2]

NoFlow == [data |-> <<>>, config |-> FlowingDefaultConfig,
           dims |-> [width |-> 0, height |-> 0], init |-> FALSE, outcome |-> "none",
           respawned |-> {}, alphas |-> <<>>, nth |-> 0]

\* the module before its first call (an empty pool), or holding a pool
InitFlowing(pool) ==
    /\ flowParticles = pool
    /\ flowTime = (IF pool = <<>> THEN 0 ELSE pool[1].life * 16)
    /\ flowInitialized = (pool # <<>>)
    /\ lastFlow = NoFlow

\* lines 285-407: render of the flowing module
FlowingRender(data, config, dims, dt) ==
    LET particleCount == config.particleCount
        width == dims.width
        height == dims.height
        rebuild == NeedsInit(flowInitialized, Len(flowParticles), particleCount)
        len == IF rebuild THEN Max(particleCount, 0) ELSE Len(flowParticles)
        time == flowTime + dt
        bassEnergy == IF Len(data.frequencyData) > 0
                      THEN getBassEnergy(data.frequencyData) ELSE 0
        trebleEnergy == IF Len(data.frequencyData) > 0
                        THEN getTrebleEnergy(data.frequencyData) ELSE 0
    IN  /\ lastFlow.nth < MaxCalls
        /\ \E d0 \in [1..(IF rebuild THEN len ELSE 0) -> FlowingDraws] :
            LET pool0 == IF rebuild
                         THEN [i \in 1..len |->
                                  createFlowingParticle(width, height, config, TRUE, d0[i])]
                         ELSE flowParticles
                expired == {i \in 1..len : FlowingExpired(pool0[i], width, height)}
            IN  \E d1 \in [expired -> FlowingDraws] :
                LET after(i) == IF i \in expired
                                THEN createFlowingParticle(width, height, config, FALSE,
                                                           d1[i])
                                ELSE MoveFlowingParticle(pool0[i], time, bassEnergy,
                                                         trebleEnergy, config, dt)
                    throwing == {i \in 1..len :
                                    i \notin expired /\ ParticleThrows(after(i))}
                    stop == IF throwing = {} THEN len
                            ELSE CHOOSE i \in throwing : \A j \in throwing : i <= j
                    alphas == [i \in 1..len |->
                                  IF i \notin expired /\ i \notin throwing /\ i <= stop
                                  THEN ParticleAlpha(after(i).life, after(i).maxLife)
                                  ELSE NULL]
                IN  /\ flowInitialized' = TRUE
                    /\ flowTime' = time
                    /\ flowParticles' =
                           [i \in 1..len |-> IF i <= stop THEN after(i) ELSE pool0[i]]
                    /\ lastFlow' = [data |-> data.frequencyData, config |-> config,
                                    dims |-> dims, init |-> rebuild,
                                    outcome |-> IF throwing # {} THEN "throw" ELSE "ok",
                                    respawned |-> {i \in expired : i <= stop},
                                    alphas |-> alphas, nth |-> lastFlow.nth + 1]
        /\ UNCHANGED <<analyserVars, micVars, audioVars, lastHelper, canvasVars>>
        /\ AppUnchanged

\* ---------------------------------------------------------------------------
\* VisualizerCanvas: the resize effect (VisualizerCanvas.tsx lines 20-54)
\* ---------------------------------------------------------------------------
\* the sizes getBoundingClientRect reports, in thousandths of a CSS pixel, and the
\* device pixel ratios, in thousandths
RectVals ==
    {[width |-> 0, height |-> 0], [width |-> 300500, height |-> 150000],
     [width |-> 800000, height |-> 600000]}
DprVals == {1000, 1500, 2000}

\* line 27: window.devicePixelRatio || 1
EffectiveDpr(dpr) == IF dpr = 0 THEN 1000 ELSE dpr

\* lines 30-31: canvas.width = rect.width * dpr; the attribute is an unsigned long,
\* the product loses its fraction
BackingStore(rect, dpr) ==
    [width |-> (rect.width * dpr) \div 1000000, height |-> (rect.height * dpr) \div 1000000]

\* a canvas that keeps its context state when it is resized
KeepTransform(t) == t

\* lines 30-31: assigning canvas.width or canvas.height resets the 2D context to its
\* default state, the identity transform included
ResetTransform(t) == [sx |-> 1000, sy |-> 1000]

\* line 40: ctx.scale(dpr, dpr)
Scale(t, x, y) == [sx |-> (t.sx * x) \div 1000, sy |-> (t.sy * y) \div 1000]

\* the canvas after the updateSize of the mount effect (line 47)
InitCanvasWith(dpr) ==
    /\ devicePixelRatio = dpr
    /\ canvas = BackingStore(dimensionsRef, EffectiveDpr(dpr))
    /\ transform = Scale([sx |-> 1000, sy |-> 1000], EffectiveDpr(dpr), EffectiveDpr(dpr))
    /\ lastResize = [rect |-> dimensionsRef, dpr |-> EffectiveDpr(dpr), nth |-> 0,
                     calls |-> 0]
InitCanvas == InitCanvasWith(1000)

\* lines 25-44: updateSize, called by the ResizeObserver with the container at rect
UpdateSize(rect) ==
    /\ mounted
    /\ rect # lastResize.rect
    /\ LET dpr == EffectiveDpr(devicePixelRatio)
       IN  /\ canvas' = BackingStore(rect, dpr)
           /\ transform' = Scale(ResetTransform(transform), dpr, dpr)
           /\ dimensionsRef' = rect
           /\ lastResize' = [rect |-> rect, dpr |-> dpr, nth |-> 1, calls |-> calls]
    /\ UNCHANGED <<mounted, isActive, mode, callbackRef, requestRef, previousTimeRef,
                   rafQueue, rafSeq, clock, lastFrame, frames, loop, devicePixelRatio>>
    /\ UNCHANGED <<analyserVars, micVars, audioVars, lastHelper, flowVars>>
    /\ NoRender

\* the window moves to another screen or is zoomed: no size change is observed
DevicePixelRatioChange(dpr) ==
    /\ dpr # devicePixelRatio
    /\ devicePixelRatio' = dpr
    /\ UNCHANGED <<hookVars, clock, lastFrame, frames, loop, canvas, transform, lastResize>>
    /\ UNCHANGED <<analyserVars, micVars, audioVars, lastHelper, flowVars>>
    /\ NoRender

\* the hooks beside the canvas before any call
InitSideOf(available, pool) ==
    /\ InitAnalyser /\ InitMicrophone(available) /\ InitAudioContext
    /\ lastHelper = NoHelperCall
    /\ InitFlowing(pool)
InitSideWith(available) == InitSideOf(available, <<>>)
InitSide == InitSideWith(TRUE)

\* ---------------------------------------------------------------------------
\* Specifications
\* ---------------------------------------------------------------------------
InitBars == previousHeights = <<>> /\ barsOffsets = <<>> /\ barsLastOffsetUpdate = 0

InitScope ==
    /\ rotation = 0 /\ scopeTime = 0 /\ triangles = <<>> /\ scopeInitialized = FALSE
    /\ scopeOffsets = <<>> /\ scopeLastOffsetUpdate = 0

InitParticles == particles = <<>> /\ ambTime = 0 /\ ambInitialized = FALSE

\* nothing has rendered in this run
InitObserved ==
    /\ defaultConfig = DefaultConfigs
    /\ analyserData = EmptySnapshot
    /\ lastCall = NoCall /\ calls = 0
    /\ reselected = {}
    /\ leftState = [m \in Modes |-> StateOf(m)]

InitRenderers == InitBars /\ InitScope /\ InitParticles /\ InitObserved

\* the component after its first commit with the mode m: the activation effect has run
InitMounted(m) ==
    /\ mounted = TRUE
    /\ isActive \in BOOLEAN
    /\ mode = m /\ callbackRef = m
    /\ previousTimeRef = NULL
    /\ rafSeq = (IF isActive THEN 1 ELSE 0)
    /\ requestRef = (IF isActive THEN 1 ELSE NULL)
    /\ rafQueue = (IF isActive THEN {1} ELSE {})
    /\ clock = 0
    /\ lastFrame = NoFrame /\ frames = 0
    /\ loop = [starts |-> IF isActive THEN 1 ELSE 0, delivered |-> 0, prevStamp |-> NULL,
               startedAt |-> 0]
    /\ InitSide

\* the visualizer: the canvas, its frame loop and the four renderers; the frames
\* come FrameMs apart
Init ==
    /\ InitMounted("bars")
    /\ dimensionsRef = [width |-> 800000, height |-> 600000]
    /\ InitCanvas
    /\ InitRenderers

Next ==
    \/ \E b \in BOOLEAN : SetActive(b)
    \/ Unmount
    \/ \E m \in Modes : SetMode(m)
    \/ Frame

Spec == Init /\ [][Next]_vars

\* the frame loop alone: the mode stays waveform, whose renderer keeps no state
InitHook ==
    /\ InitMounted("waveform")
    /\ dimensionsRef \in DimVals
    /\ InitCanvas
    /\ InitRenderers

NextHook ==
    \/ \E b \in BOOLEAN : SetActive(b)
    \/ Unmount
    \/ Tick
    \/ Frame

SpecHook == InitHook /\ [][NextHook]_vars

\* the renderers called directly, with no component mounted
InitUnmountedApp ==
    /\ mounted = FALSE /\ isActive = FALSE
    /\ mode = "bars" /\ callbackRef = "bars"
    /\ previousTimeRef = NULL /\ rafSeq = 0 /\ requestRef = NULL /\ rafQueue = {}
    /\ clock = 0
    /\ dimensionsRef = [width |-> 0, height |-> 0]
    /\ InitCanvas
    /\ lastFrame = NoFrame /\ frames = 0
    /\ loop = [starts |-> 0, delivered |-> 0, prevStamp |-> NULL, startedAt |-> 0]
InitUnmounted == InitUnmountedApp /\ InitSide

InitRender == InitUnmounted /\ InitRenderers

\* all four renderers, each with its default config, on every input
NextRender ==
    Tick \/ \E m \in Modes : DirectRender(m, DataVals, {DefaultConfigs[m]}, DimVals, DtVals)
SpecRender == InitRender /\ [][NextRender]_vars

\* all four renderers, each with its default config, on a surface of 800 x 600 at
\* 16 ms a frame
Surface == {[width |-> 800000, height |-> 600000]}
FrameDt == {16}

NextModes ==
    Tick \/ \E m \in Modes : DirectRender(m, AppData, {DefaultConfigs[m]}, Surface, FrameDt)
SpecModes == InitRender /\ [][NextModes]_vars

\* bars alone, with variations of its config: silence, a full-scale and a weak signal
BarsData == {EmptySnapshot, Snapshot(Loud10, Flat4), Snapshot(Short5, <<>>)}

NextBars == Tick \/ DirectRender("bars", BarsData, ConfigVals("bars"), Surface, FrameDt)
SpecBars == InitRender /\ [][NextBars]_vars

\* a pool the module holds after 2100 frames: its particle is at the end of its life
AgedPool ==
    <<[createParticle(800000, 600000, AmbianceDefaultConfig, 750, 750, 750, 750, 750, 750)
          EXCEPT !.life = 2100]>>

InitAgedParticles == particles = AgedPool /\ ambTime = 2100 * 16 /\ ambInitialized = TRUE

\* ambiance alone, with variations of its config, from a fresh or an aged module
InitAmbiance ==
    /\ InitUnmounted
    /\ InitBars /\ InitScope
    /\ (InitParticles \/ InitAgedParticles)
    /\ InitObserved

\* every snapshot, among them five bins (a bass range of no bins)
AmbianceData == DataVals

NextAmbiance ==
    Tick \/ DirectRender("ambiance", AmbianceData, ConfigVals("ambiance"), Surface, FrameDt)
SpecAmbiance == InitAmbiance /\ [][NextAmbiance]_vars

\* the renderers that take a count, each with its default config and with a count of -1
CountedModes == {"bars", "scope", "ambiance"}

NegativeCountVals(m) ==
    CASE m = "bars" -> {BarsDefaultConfig, [BarsDefaultConfig EXCEPT !.barCount = -1]}
      [] m = "scope" -> {ScopeDefaultConfig, [ScopeDefaultConfig EXCEPT !.barCount = -1]}
      [] m = "ambiance" ->
            {AmbianceDefaultConfig, [AmbianceDefaultConfig EXCEPT !.particleCount = -1]}

NextCounts ==
    Tick \/ \E m \in CountedModes :
                DirectRender(m, AppData, NegativeCountVals(m), Surface, FrameDt)
SpecCounts == InitRender /\ [][NextCounts]_vars

\* useAnalyser alone
NextAnalyser == GetData \/ \E a \in AnalyserNodes \cup {NULL} : SetAnalyser(a)
SpecAnalyser == InitRender /\ [][NextAnalyser]_vars

\* the lives at which a frame takes a particle of the given maxLife to both sides of
\* lifeRatio 0.1 and 0.8, to its last frame and past it
AgedLives(maxLife) ==
    {maxLife \div 10 - 2, maxLife \div 10 - 1, (maxLife * 8) \div 10 - 1,
     (maxLife * 8) \div 10, maxLife - 1, maxLife}

\* a particle of ambiance.ts after life frames, at x
AgedParticle(life, x) ==
    [createParticle(800000, 600000, AmbianceDefaultConfig, 750, 750, 750, 750, 750, 750)
        EXCEPT !.life = life, !.x = x]

\* a particle of the flowing module after life frames, at <<x, y>>
AgedFlowingParticle(life, x, y) ==
    [createFlowingParticle(800000, 600000, FlowingDefaultConfig, TRUE,
                           [rs |-> 750, rx |-> 750, ry |-> 750, rvx |-> 750, rvy |-> 750,
                            rl |-> 750])
        EXCEPT !.life = life, !.x = x, !.y = y]

\* pools of ambiance.ts: before the first call, at the lives above, and past the
\* left and the right edge
DriftingPools ==
    {<< >>}
    \cup {<<AgedParticle(life, 600000)>> : life \in AgedLives(2100)}
    \cup {<<AgedParticle(1000, x)>> : x \in {-31000, 831000}}

\* pools of the flowing module: before the first call, at the lives above, and past
\* the right, the upper and the lower edge
FlowingPools ==
    {<< >>}
    \cup {<<AgedFlowingParticle(life, 600000, 450000)>> : life \in AgedLives(1100)}
    \cup {<<AgedFlowingParticle(500, 851000, 450000)>>,
          <<AgedFlowingParticle(500, 600000, -51000)>>,
          <<AgedFlowingParticle(500, 600000, 651000)>>}

\* the two ambiance modules, one of them in a build: pools of every age, every
\* snapshot, one or two particles
InitParticlePools ==
    /\ InitUnmountedApp
    /\ InitBars /\ InitScope
    /\ \E pool \in DriftingPools :
          /\ particles = pool
          /\ ambTime = (IF pool = <<>> THEN 0 ELSE pool[1].life * 16)
          /\ ambInitialized = (pool # <<>>)
    /\ \E pool \in FlowingPools :
          /\ particles = <<>> \/ pool = <<>>
          /\ InitSideOf(TRUE, pool)
    /\ InitObserved
NextParticlePools ==
    \/ /\ lastFlow.nth = 0 /\ ~flowInitialized
       /\ DirectRender("ambiance", DataVals,
                       {AmbianceDefaultConfig,
                        [AmbianceDefaultConfig EXCEPT !.particleCount = ParticleCount + 1]},
                       Surface, FrameDt)
    \/ /\ calls = 0 /\ ~ambInitialized
       /\ \E data \in DataVals, dims \in Surface, dt \in FrameDt,
             config \in {FlowingDefaultConfig,
                         [FlowingDefaultConfig EXCEPT !.particleCount = ParticleCount + 1]} :
             FlowingRender(data, config, dims, dt)
SpecParticlePools == InitParticlePools /\ [][NextParticlePools]_vars

\* the canvas in its container: size changes, ratio changes and the frames of bars
InitResizing ==
    /\ InitMounted("bars")
    /\ dimensionsRef \in RectVals
    /\ \E dpr \in DprVals : InitCanvasWith(dpr)
    /\ InitRenderers
NextResizing ==
    \/ \E rect \in RectVals : UpdateSize(rect)
    \/ \E dpr \in DprVals : DevicePixelRatioChange(dpr)
    \/ Frame
SpecResizing == InitResizing /\ [][NextResizing]_vars

\* useMicrophone alone
NextMicrophone ==
    \/ RequestMicrophone
    \/ \E id \in pendingRequests : ResolveRequest(id)
    \/ \E id \in pendingRequests, name \in ErrorNames : RejectRequest(id, name)
    \/ StopMicrophone
    \/ \E p \in {"prompt", "granted", "denied"} : PermissionChange(p)
\* in a browser with getUserMedia and in one without
InitMicrophoneHook ==
    /\ InitUnmountedApp /\ InitRenderers
    /\ \E available \in BOOLEAN : InitSideWith(available)
SpecMicrophone == InitMicrophoneHook /\ [][NextMicrophone]_vars

\* useAudioContext alone
NextAudioContext ==
    \/ InitializeAudioContext
    \/ \E c \in pendingResumes, resolved \in BOOLEAN : ResumeSettles(c, resolved)
    \/ \E c \in 1..Len(contextState) : CloseOutside(c)
    \/ \E created \in BOOLEAN : ConnectSource(created)
    \/ Cleanup
SpecAudioContext == InitRender /\ [][NextAudioContext]_vars

\* the <<totalBars, dataLength>> getLogarithmicIndex is called with
IndexInputs ==
    ((1..MaxTotalBars) \X (0..MaxDataLength)) \cup ((1..MaxGapBars) \X (0..MaxGapLength))

\* the audio helpers alone, called with every input of the bounded sets
NextHelpers ==
    \/ \E data \in BassInputs : CallGetBassEnergy(data)
    \/ \E sizes \in IndexInputs :
          \E linearIndex \in 0..(sizes[1] - 1) :
             CallGetLogarithmicIndex(linearIndex, sizes[1], sizes[2])
SpecHelpers == InitRender /\ [][NextHelpers]_vars

\* ---------------------------------------------------------------------------
\* Properties
\* ---------------------------------------------------------------------------
\* a call the renderers must survive: no samples, no surface, or no time elapsed
DegenerateCall(c) ==
    \/ Len(c.data.frequencyData) = 0 /\ Len(c.data.timeDomainData) = 0
    \/ c.dims = [width |-> 0, height |-> 0]
    \/ c.dt <= 0

\* C1: a render call of any mode with zero-length sample arrays, a 0x0 surface or
\* deltaTime <= 0 completes without raising, whatever render calls came before it.
C1_DegenerateCallCompletes ==
    (lastCall.renderer \in Modes /\ DegenerateCall(lastCall)) => lastCall.outcome = "ok"

\* an ambiance call with no samples raised: a call before it, with five bins, had left
\* NaN in a particle
C1_Witness ==
    /\ lastCall.renderer = "ambiance" /\ calls = 2
    /\ lastCall.data = EmptySnapshot
    /\ lastCall.outcome = "throw"
    /\ \E i \in 1..Len(particles) : particles[i].y = NaN

\* C2: the first frame delivered after the loop starts invokes no callback; every
\* later frame of that loop invokes the callback exactly once, with deltaTime equal
\* to the frame's timestamp minus the previous frame's timestamp, which is >= 0.
C2_FirstFrameSilentThenDelta ==
    lastFrame.stamp # NULL =>
        IF lastFrame.nth = 1
        THEN ~lastFrame.called /\ lastFrame.renders = 0
        ELSE /\ lastFrame.called /\ lastFrame.renders = 1
             /\ lastFrame.delta = lastFrame.stamp - lastFrame.prev
             /\ lastFrame.delta >= 0
             /\ lastCall.dt = lastFrame.delta

\* the third frame of a loop called back with the time since the second, a tick apart
C2_Witness ==
    /\ lastFrame.nth = 3 /\ lastFrame.called
    /\ lastFrame.delta = FrameMs + TickMs
    /\ lastCall.dt = FrameMs + TickMs

\* C3: while isActive is false or the hook is unmounted no frame request is pending
\* and no frame is delivered or callback invoked; with isActive false from the start
\* no frame is ever requested.
C3_InactiveLoopIdle ==
    /\ []((~isActive \/ ~mounted) => (rafQueue = {} /\ requestRef = NULL))
    /\ [](loop.starts = 0 => (rafSeq = 0 /\ frames = 0 /\ calls = 0))
    /\ [][(frames' # frames \/ calls' # calls) => (isActive /\ mounted)]_vars

\* the loop ran, called back, and was then deactivated with a request pending
C3_Witness ==
    /\ mounted /\ ~isActive
    /\ frames >= 2 /\ calls >= 1
    /\ rafSeq > frames
    /\ rafQueue = {}

\* C4: outside an active loop no previous timestamp is remembered, so after a
\* reactivation the first frame invokes no callback and every deltaTime passed to the
\* callback starts at or after the reactivation.
C4_RestartDiscardsTimestamp ==
    /\ (~isActive \/ loop.delivered = 0) => previousTimeRef = NULL
    /\ (lastFrame.stamp # NULL /\ lastFrame.starts >= 2) =>
           /\ lastFrame.nth = 1 => ~lastFrame.called
           /\ lastFrame.called => lastFrame.stamp - lastFrame.delta >= lastFrame.startedAt

\* a loop that delivered a frame, was stopped for a tick, restarted and called back
C4_Witness ==
    /\ lastFrame.starts = 2 /\ lastFrame.called
    /\ frames > lastFrame.nth
    /\ lastFrame.startedAt >= FrameMs + TickMs
    /\ lastFrame.delta = FrameMs

C7_RenderTouchesOwnStateOnly ==
    [][calls' # calls =>
          /\ \A m \in Modes \ {lastCall'.renderer} : StateLeftBy(m) = StateOf(m)
          /\ defaultConfig' = defaultConfig
          /\ lastCall'.config = defaultConfig'[lastCall'.renderer]
          /\ analyserData' = lastCall'.data]_vars

\* scope rendered after bars had built its arrays
C7_Witness ==
    /\ lastCall.renderer = "scope" /\ lastCall.outcome = "ok"
    /\ previousHeights # <<>> /\ barsOffsets # <<>>
    /\ scopeOffsets # <<>>

\* C8: after every ambiance render call the pool holds config.particleCount
\* particles (counts 0, 1 and 2), also in the call that follows a change of the count.
C8_PoolMatchesCount ==
    lastCall.renderer = "ambiance" => Len(particles) = lastCall.config.particleCount

\* the second call of a run rebuilt the pool for a count of 2
C8_Witness ==
    /\ lastCall.renderer = "ambiance" /\ calls = 2
    /\ lastCall.init
    /\ lastCall.config.particleCount = 2 /\ Len(particles) = 2

Between(a, x, b) == (a <= b => (a <= x /\ x <= b)) /\ (a >= b => (b <= x /\ x <= a))

\* C9: in every bars render call (smoothing in [0,1)) each stored height moves from
\* its previous value toward the call's target and ends between the two, so under a
\* constant target the heights approach it monotonically and never pass it.
C9_SmoothingNeverOvershoots ==
    [][(calls' # calls /\ lastCall'.outcome = "ok") =>
          \A i \in 1..Len(previousHeights') :
              Between(BarsInitHeights(previousHeights, lastCall'.config.barCount)[i],
                      previousHeights'[i], lastCall'.targets[i])]_vars

\* two calls with the target 510: the height went 0, 357, 464.1
C9_Witness ==
    /\ calls = 2
    /\ lastCall.targets = <<510000>>
    /\ previousHeights = <<464100>>

\* C10: in a bars render call with averageFrequency 0 on a surface of positive height
\* (smoothing in [0,1)) every target is 0.05 of the maximum bar height, and every
\* stored height ends between its previous value and that floor and is not 0.
C10_SilentBarsSettleAtFloor ==
    [][(calls' # calls /\ lastCall'.outcome = "ok"
            /\ lastCall'.data.averageFrequency = 0 /\ lastCall'.dims.height > 0) =>
          \A i \in 1..Len(previousHeights') :
              LET floor == (50 * ((lastCall'.dims.height * 850) \div 1000)) \div 1000
              IN  /\ lastCall'.targets[i] = floor
                  /\ floor > 0
                  /\ Between(BarsInitHeights(previousHeights,
                                             lastCall'.config.barCount)[i],
                             previousHeights'[i], floor)
                  /\ previousHeights'[i] # 0]_vars

\* two silent calls on a surface 600 high: the height went 0, 17.85, 23.205
C10_Witness ==
    /\ calls = 2
    /\ lastCall.data.averageFrequency = 0
    /\ lastCall.targets = <<25500>>
    /\ previousHeights = <<23205>>

\* the count a render call was configured with
ConfiguredCount(c) ==
    IF c.renderer = "ambiance" THEN c.config.particleCount ELSE c.config.barCount

\* C11: a render call of bars, scope or ambiance whose configured count is negative
\* completes without raising.
C11_NegativeCountCompletes ==
    (lastCall.renderer \in CountedModes /\ ConfiguredCount(lastCall) < 0) =>
        lastCall.outcome = "ok"

\* scope, called with barCount -1 after a call that had built its offsets, drew its
\* background and triangles and then raised
C11_Witness ==
    /\ lastCall.renderer = "scope" /\ lastCall.config.barCount = -1
    /\ lastCall.outcome = "throw"
    /\ lastCall.drawn = {"background", "triangles"}
    /\ scopeOffsets # <<>>

\* C12: getData returns the empty snapshot whenever no analyser is attached, before any
\* setAnalyser call and after setAnalyser(null); while an analyser is attached it
\* returns arrays of lengths frequencyBinCount and fftSize, and from the second call
\* after the attachment on the same array objects as the call before.
C12_EmptyWhenDetachedElseSameArrays ==
    gets > 0 =>
        IF lastGet.analyser = NULL
        THEN /\ lastGet.frequencyData.len = 0 /\ lastGet.timeDomainData.len = 0
             /\ lastGet.averageFrequency = 0 /\ lastGet.peakFrequency = 0
        ELSE /\ lastGet.frequencyData.len = frequencyBinCount(lastGet.analyser)
             /\ lastGet.timeDomainData.len = fftSize(lastGet.analyser)
             /\ lastGet.nth >= 2 =>
                    /\ lastGet.frequencyData = lastGet.prevFrequencyData
                    /\ lastGet.timeDomainData = lastGet.prevTimeDomainData

\* getData with an analyser attached, setAnalyser(null), and getData again: empty
C12_Witness ==
    /\ sets >= 2 /\ analyserRef = NULL
    /\ lastGet.analyser = NULL /\ lastGet.prevAttached
    /\ lastGet.prevFrequencyData.len = 10
    /\ lastGet.frequencyData.len = 0

\* C13: when getUserMedia resolves the hook holds the stream, is active, has
\* permissionState granted and no error; when it rejects, requestMicrophone returns
\* null and the hook has no stream, is inactive, shows the error type mapped from the
\* error name (Unknown for a name it does not know), and its permissionState is denied
\* for NotAllowedError and otherwise what it was.
C13_RequestOutcome ==
    /\ lastMic.op = "resolve" =>
           /\ micState.stream = lastMic.returned /\ micState.stream # NULL
           /\ streamRef = lastMic.returned
           /\ micState.isActive /\ ~micState.isRequesting
           /\ micState.permissionState = "granted"
           /\ micState.error = "null"
    /\ lastMic.op = "reject" =>
           /\ lastMic.returned = NULL
           /\ micState.stream = NULL /\ ~micState.isActive /\ ~micState.isRequesting
           /\ micState.error = (IF lastMic.name \in {"NotFoundError", "NotAllowedError",
                                                     "NotReadableError", "SecurityError",
                                                     "OverconstrainedError"}
                                THEN lastMic.name ELSE "Unknown")
           /\ micState.permissionState = (IF lastMic.name = "NotAllowedError" THEN "denied"
                                          ELSE lastMic.before.permissionState)

\* a request was rejected with a name the mapping does not know, its permissionState
\* stayed granted
C13_Witness ==
    /\ lastMic.op = "reject" /\ lastMic.name = "AbortError"
    /\ micState.error = "Unknown"
    /\ micState.permissionState = "granted"

C15_RequestingWhilePending ==
    micState.isRequesting <=> (pendingRequests # {})

\* a request is still pending and isRequesting is already false
C15_Witness ==
    /\ pendingRequests # {}
    /\ ~micState.isRequesting
    /\ lastMic.op \in {"stop", "resolve", "reject"}

\* C16: stopMicrophone stops every track of the stream the hook holds and leaves
\* stream null, isActive false and isRequesting false; permissionState and error
\* are what they were before the call.
C16_StopClearsStreamOnly ==
    lastMic.op = "stop" =>
        /\ lastMic.beforeRef \notin liveStreams
        /\ streamRef = NULL
        /\ micState.stream = NULL /\ ~micState.isActive /\ ~micState.isRequesting
        /\ micState.permissionState = lastMic.before.permissionState
        /\ micState.error = lastMic.before.error

\* an active microphone was stopped; its permissionState granted was kept
C16_Witness ==
    /\ lastMic.op = "stop" /\ lastMic.before.isActive /\ lastMic.beforeRef # NULL
    /\ micState.permissionState = "granted"
    /\ ~micState.isActive

\* C17: an initializeAudioContext call that finds a context that is not closed
\* returns that context, running, and creates no context and no analyser.
C17_ExistingContextReturned ==
    (lastAudio.op = "initialized" /\ lastAudio.alive) =>
        /\ ~lastAudio.thrown /\ ~lastAudio.created
        /\ lastAudio.returned # NULL
        /\ lastAudio.returned = (IF lastAudio.awaited # NULL THEN lastAudio.awaited
                                 ELSE lastAudio.beforeRef)
        /\ contextState[lastAudio.returned] = "running"

\* cleanup ran while a call awaited resume(); the call then returned no context
C17_Witness ==
    /\ lastAudio.op = "initialized" /\ lastAudio.alive /\ lastAudio.awaited # NULL
    /\ lastAudio.returned # lastAudio.awaited
    /\ contextState[lastAudio.awaited] = "closed"
    /\ cleanups > 0

\* C18: after cleanup the source and the analyser are disconnected, the context is
\* closed, and the hook shows audioContext null, analyser null and isInitialized
\* false; a connectSource call on an uninitialised hook (none of its
\* initializeAudioContext calls succeeded since it was made or last cleaned up)
\* returns null and connects nothing.
C18_CleanupUninitialises ==
    /\ lastAudio.op = "cleanup" =>
           /\ lastAudio.beforeSource \notin connectedSources
           /\ connectedSources = {}
           /\ sourceRef = NULL /\ audioAnalyserRef = NULL
           /\ lastAudio.beforeRef # NULL => contextState[lastAudio.beforeRef] = "closed"
           /\ audioState.audioContext = NULL /\ audioState.analyser = NULL
           /\ ~audioState.isInitialized
           /\ audioState = AudioState0
    /\ (lastAudio.op = "connect" /\ lastAudio.uninitialised) =>
           /\ lastAudio.returned = NULL
           /\ ~lastAudio.created
           /\ connectedSources = lastAudio.beforeConnected
           /\ sourceRef = lastAudio.beforeSource

\* connectSource was called after the cleanup of a hook whose context had been
\* closed by its holder, which leaves audioContextRef set; it returned null
C18_Witness ==
    /\ lastAudio.op = "connect" /\ lastAudio.uninitialised
    /\ cleanups > 0
    /\ audioContextRef # NULL
    /\ lastAudio.returned = NULL

\* C19: getBassEnergy(data) is the mean of the first floor(length / 10) bins divided
\* by 255 (in thousandths), lies in [0, 1], and is 0 when that range is empty.
C19_BassEnergyMeanOrZero ==
    lastHelper.fn = "getBassEnergy" =>
        LET data == lastHelper.args[1]
            bassRange == Len(data) \div 10
        IN  /\ lastHelper.result >= 0 /\ lastHelper.result <= 1000
            /\ bassRange = 0 => lastHelper.result = 0
            /\ bassRange > 0 =>
                   lastHelper.result = (SumTo(data, bassRange) * 1000) \div (bassRange * 255)

\* getBassEnergy was called with 9 bins and returned NaN
C19_Witness ==
    /\ lastHelper.fn = "getBassEnergy"
    /\ Len(lastHelper.args[1]) = 9
    /\ lastHelper.result = NaN

\* C20 as stated: for fixed totalBars and dataLength, getLogarithmicIndex does not
\* decrease with linearIndex, is 0 for linearIndex 0, and lies in [0, dataLength) for
\* every linearIndex in 0..totalBars-1.
C20_IndexInsideData ==
    lastHelper.fn = "getLogarithmicIndex" =>
        LET linearIndex == lastHelper.args[1]
            totalBars == lastHelper.args[2]
            dataLength == lastHelper.args[3]
        IN  /\ linearIndex = 0 => lastHelper.result = 0
            /\ \A j \in 0..linearIndex :
                   getLogarithmicIndex(j, totalBars, dataLength) <= lastHelper.result
            /\ lastHelper.result >= 0 /\ lastHelper.result < dataLength

\* C20: for fixed totalBars and dataLength, getLogarithmicIndex does not decrease
\* with linearIndex, is 0 for linearIndex 0, and for every linearIndex in
\* 0..totalBars-1 lies in [0, dataLength) when dataLength is positive and is 0 when
\* dataLength is 0.
C20_IndexInsideNonEmptyData ==
    lastHelper.fn = "getLogarithmicIndex" =>
        LET linearIndex == lastHelper.args[1]
            totalBars == lastHelper.args[2]
            dataLength == lastHelper.args[3]
        IN  /\ linearIndex = 0 => lastHelper.result = 0
            /\ \A j \in 0..linearIndex :
                   getLogarithmicIndex(j, totalBars, dataLength) <= lastHelper.result
            /\ lastHelper.result >= 0
            /\ dataLength > 0 => lastHelper.result < dataLength
            /\ dataLength = 0 => lastHelper.result = 0

\* the last bar of MaxTotalBars got a bin past the first and before the last of the
\* longest data
C20_Witness ==
    /\ lastHelper.fn = "getLogarithmicIndex"
    /\ lastHelper.args = <<MaxTotalBars - 1, MaxTotalBars, MaxDataLength>>
    /\ lastHelper.result > 1 /\ lastHelper.result < MaxDataLength - 1

\* index(i + 1) - index(i) for the bars of the last getLogarithmicIndex call
IndexGap(i) ==
    getLogarithmicIndex(i + 1, lastHelper.args[2], lastHelper.args[3])
    - getLogarithmicIndex(i, lastHelper.args[2], lastHelper.args[3])

\* C21 as stated: for fixed totalBars and dataLength the gap between successive
\* getLogarithmicIndex outputs strictly increases with linearIndex through the upper
\* half of 0..totalBars-1.
C21_GapsStrictlyIncrease ==
    (/\ lastHelper.fn = "getLogarithmicIndex"
     /\ 2 * lastHelper.args[1] >= lastHelper.args[2]
     /\ lastHelper.args[1] + 2 <= lastHelper.args[2] - 1) =>
        IndexGap(lastHelper.args[1]) < IndexGap(lastHelper.args[1] + 1)

\* C21: for fixed totalBars and dataLength the gap between successive
\* getLogarithmicIndex outputs never shrinks by more than one bin from one
\* linearIndex to the next, anywhere in 0..totalBars-1.
C21_GapsShrinkByAtMostOne ==
    (/\ lastHelper.fn = "getLogarithmicIndex"
     /\ lastHelper.args[1] + 2 <= lastHelper.args[2] - 1) =>
        IndexGap(lastHelper.args[1] + 1) >= IndexGap(lastHelper.args[1]) - 1

\* a bar of the upper half whose gap and the next bar's gap are the same bin count
C21_Witness ==
    /\ lastHelper.fn = "getLogarithmicIndex"
    /\ 2 * lastHelper.args[1] >= lastHelper.args[2]
    /\ lastHelper.args[1] + 2 <= lastHelper.args[2] - 1
    /\ IndexGap(lastHelper.args[1]) > 0
    /\ IndexGap(lastHelper.args[1] + 1) = IndexGap(lastHelper.args[1])

\* C22: every waveform render call draws the gridlines and the dashed center line,
\* and a call with empty timeDomainData draws the flat idle line as well.
C22_GridAndCenterLineAlwaysDrawn ==
    lastCall.renderer = "waveform" =>
        /\ lastCall.outcome = "ok"
        /\ {"centerLine", "grid"} \subseteq lastCall.drawn
        /\ Len(lastCall.data.timeDomainData) = 0 => "idleLine" \in lastCall.drawn

\* a waveform call with empty timeDomainData drew the idle line and nothing else
C22_Witness ==
    /\ lastCall.renderer = "waveform"
    /\ Len(lastCall.data.timeDomainData) = 0
    /\ lastCall.outcome = "ok"
    /\ lastCall.drawn = {"idleLine"}

\* C23 as stated: after every observed size change the backing store is the logical
\* size times devicePixelRatio, the renderers' dimensions are the latest logical
\* size, and the transform is one uniform scale by devicePixelRatio.
C23_BackingStoreIsProduct ==
    lastResize.nth > 0 =>
        /\ canvas.width * 1000000 = lastResize.rect.width * lastResize.dpr
        /\ canvas.height * 1000000 = lastResize.rect.height * lastResize.dpr
        /\ dimensionsRef = lastResize.rect
        /\ calls > lastResize.calls => lastCall.dims = lastResize.rect
        /\ transform = [sx |-> lastResize.dpr, sy |-> lastResize.dpr]

\* C23: after every observed size change the backing store is the whole-pixel part
\* of the logical size times devicePixelRatio, the renderers' dimensions are the
\* latest logical size, and the transform is one uniform scale by devicePixelRatio,
\* whatever the transform was before.
C23_BackingStoreIsTruncatedProduct ==
    lastResize.nth > 0 =>
        /\ canvas.width * 1000000 <= lastResize.rect.width * lastResize.dpr
        /\ (canvas.width + 1) * 1000000 > lastResize.rect.width * lastResize.dpr
        /\ canvas.height * 1000000 <= lastResize.rect.height * lastResize.dpr
        /\ (canvas.height + 1) * 1000000 > lastResize.rect.height * lastResize.dpr
        /\ dimensionsRef = lastResize.rect
        /\ calls > lastResize.calls => lastCall.dims = lastResize.rect
        /\ transform = [sx |-> lastResize.dpr, sy |-> lastResize.dpr]

\* a container of 300.5 x 150 on a screen of ratio 1.5, after a resize from another
\* size at the same ratio: 450 x 225 pixels, scaled once
C23_Witness ==
    /\ lastResize.nth > 0
    /\ lastResize.rect = [width |-> 300500, height |-> 150000]
    /\ lastResize.dpr = 1500
    /\ canvas = [width |-> 450, height |-> 225]
    /\ transform = [sx |-> 1500, sy |-> 1500]
    /\ calls > lastResize.calls

\* the alpha the claim gives for a life and a maxLife, in thousandths
EnvelopeAlpha(life, maxLife) ==
    IF life * 10 < maxLife THEN (life * 10 * 1000) \div maxLife
    ELSE IF life * 10 > maxLife * 8 THEN ((maxLife - life) * 5 * 1000) \div maxLife
    ELSE 1000

\* a pool and the alphas of its last frame follow the envelope
AlphasFollowEnvelope(pool, alphas) ==
    \A i \in 1..Len(alphas) :
        alphas[i] # NULL =>
            /\ pool[i].life > 0 /\ pool[i].life <= pool[i].maxLife
            /\ alphas[i] = EnvelopeAlpha(pool[i].life, pool[i].maxLife)
            /\ alphas[i] >= 0 /\ alphas[i] <= 1000

\* C24: every particle that ambiance draws, in either module, has a lifeRatio in
\* (0,1] and the alpha lifeRatio * 10 below 0.1, (1 - lifeRatio) * 5 above 0.8 and 1
\* in between, which is in [0,1].
C24_AlphaFollowsLife ==
    /\ lastCall.renderer = "ambiance" => AlphasFollowEnvelope(particles, lastCall.targets)
    /\ lastFlow.nth > 0 => AlphasFollowEnvelope(flowParticles, lastFlow.alphas)

\* a particle of the flowing module was drawn on the first frame of its fade-out
C24_Witness ==
    /\ lastFlow.nth > 0 /\ Len(lastFlow.alphas) = 1
    /\ flowParticles[1].life = 881 /\ flowParticles[1].maxLife = 1100
    /\ lastFlow.alphas[1] = 995

\* a frame of ambiance.ts took the pool (the new-built one when built is true) to
\* pool1: every life advanced by one, unless the particle outlived maxLife and was
\* replaced, undrawn, by a fresh one on the surface; a particle past the left or the
\* right edge came back on the other side
DriftingFrame(pool1, built, alphas, dims) ==
    \A i \in 1..Len(pool1) :
        IF ~built /\ particles[i].life + 1 > particles[i].maxLife
        THEN /\ pool1[i].life = 0
             /\ alphas[i] = NULL
             /\ pool1[i].x >= 0 /\ pool1[i].x <= dims.width
             /\ pool1[i].y >= 0 /\ pool1[i].y <= dims.height
        ELSE /\ pool1[i].life = (IF built THEN 0 ELSE particles[i].life) + 1
             /\ (~built /\ particles[i].x < -30000) => pool1[i].x > dims.width
             /\ (~built /\ particles[i].x > dims.width + 30000) => pool1[i].x < 0

\* the same for a frame of the flowing module: a particle is replaced when it
\* outlived maxLife or was past the right, the upper or the lower edge, and the fresh
\* one starts 50 to 150 px left of the surface
FlowingFrame(pool1, built, alphas, dims) ==
    \A i \in 1..Len(pool1) :
        IF ~built /\ (\/ flowParticles[i].life + 1 > flowParticles[i].maxLife
                      \/ flowParticles[i].x > dims.width + 50000
                      \/ flowParticles[i].y < -50000
                      \/ flowParticles[i].y > dims.height + 50000)
        THEN /\ pool1[i].life = 0
             /\ alphas[i] = NULL
             /\ pool1[i].x >= -150000 /\ pool1[i].x <= -50000
        ELSE pool1[i].life = (IF built THEN 0 ELSE flowParticles[i].life) + 1

\* C25: in each ambiance frame every particle's life advances by one; a particle
\* that outlived maxLife (in the flowing module also one past the right, upper or
\* lower edge) is replaced in place by a fresh particle with life 0 and is not drawn;
\* the fresh particle of the flowing module starts at x in [-150, -50], the one of
\* ambiance.ts on the surface, where live particles wrap at the edges.
C25_EveryParticleAdvancesOrRespawns ==
    [][/\ (calls' = calls + 1 /\ lastCall'.renderer = "ambiance") =>
             DriftingFrame(particles', lastCall'.init, lastCall'.targets, lastCall'.dims)
       /\ lastFlow'.nth = lastFlow.nth + 1 =>
             FlowingFrame(flowParticles', lastFlow'.init, lastFlow'.alphas, lastFlow'.dims)
      ]_vars

\* a frame of two new particles and five bins (a bass range of no bins): the frame
\* raised at the first particle and the second was left at life 0
C25_Witness ==
    /\ lastCall.renderer = "ambiance" /\ lastCall.outcome = "throw"
    /\ Len(lastCall.data.frequencyData) = 5
    /\ Len(particles) = 2
    /\ particles[1].life = 1 /\ particles[2].life = 0

\* a step is a bars render call that returned
BarsCallReturns == calls' = calls + 1 /\ lastCall'.renderer = "bars" /\ lastCall'.outcome = "ok"

\* more than 30 + (1 - averageFrequency) * 50 ms passed between the previous
\* re-sampling and the call of this step
IntervalPassed ==
    (DateEpoch + clock' - barsLastOffsetUpdate) * 1000
        > 30000 + (1000 - lastCall'.data.averageFrequency) * 50

OffsetsInRange == \A i \in 1..Len(barsOffsets') : barsOffsets'[i] >= 0 /\ barsOffsets'[i] <= 1000

\* C26 as stated: after every bars render call every offset lies in [0,1]; the
\* offsets are re-sampled only in a call made more than 30 + (1 - averageFrequency)
\* * 50 ms after the previous re-sampling, and are unchanged in every other call.
C26_OffsetsChangeOnlyWhenDue ==
    [][BarsCallReturns =>
          /\ OffsetsInRange
          /\ barsLastOffsetUpdate' # barsLastOffsetUpdate => IntervalPassed
          /\ ~IntervalPassed => barsOffsets' = barsOffsets]_vars

\* C26: after every bars render call every offset lies in [0,1]; the offsets are
\* re-sampled exactly in the calls made more than 30 + (1 - averageFrequency) * 50 ms
\* after the previous re-sampling; in every other call they are unchanged, unless
\* barCount differs from their number, in which case barCount new offsets are drawn.
C26_OffsetsChangeWhenDueOrRebuilt ==
    [][BarsCallReturns =>
          /\ OffsetsInRange
          /\ Len(barsOffsets') = lastCall'.config.barCount
          /\ IntervalPassed => barsLastOffsetUpdate' = DateEpoch + clock'
          /\ ~IntervalPassed =>
                 /\ barsLastOffsetUpdate' = barsLastOffsetUpdate
                 /\ Len(barsOffsets) = lastCall'.config.barCount =>
                        barsOffsets' = barsOffsets]_vars

\* a silent call 48 ms after the re-sampling of the first call: the interval is
\* 80 ms, the offsets were not re-sampled
C26_Witness ==
    /\ lastCall.renderer = "bars" /\ lastCall.outcome = "ok" /\ calls = 2
    /\ lastCall.data.averageFrequency = 0
    /\ clock = TickMs
    /\ barsLastOffsetUpdate = DateEpoch
    /\ Len(barsOffsets) = lastCall.config.barCount

\* scope alone on the 800 x 600 surface: its default config, one more bar and a
\* count of -1, on silence, a full-scale and a weak signal, with every deltaTime
NextScope ==
    Tick \/ DirectRender("scope", BarsData, ConfigVals("scope") \cup NegativeCountVals("scope"),
                         Surface, DtVals)
SpecScope == InitRender /\ [][NextScope]_vars

\* a step is a scope render call
ScopeCall == calls' = calls + 1 /\ lastCall'.renderer = "scope"

\* rotationSpeed * deltaTime * 0.001 * (1 + averageFrequency) of the call of this
\* step, in millionths of a radian
RotationIncrement ==
    (lastCall'.config.rotationSpeed * lastCall'.dt
        * (1000 + lastCall'.data.averageFrequency)) \div 1000

C28_AtMostOneRequest ==
    /\ Cardinality(rafQueue) <= 1
    /\ rafQueue \subseteq {requestRef}
    /\ (~isActive \/ ~mounted) => rafQueue = {}

\* the loop was stopped and started again, its callback was replaced, and a frame
\* of the second run has been delivered and has requested the next one
C28_Witness ==
    /\ loop.starts = 2 /\ loop.delivered >= 1
    /\ callbackRef # "bars"
    /\ isActive /\ mounted
    /\ Cardinality(rafQueue) = 1

\* C29: every stream obtained from getUserMedia is the stream the hook holds or has
\* had its tracks stopped, also when a second request is issued before the first one
\* resolves.
C29_EveryLiveStreamHeld ==
    liveStreams \subseteq {streamRef}

\* two requests overlapped and both resolved: the stream of one of them is live and
\* is not the one streamRef names
C29_Witness ==
    /\ lastMic.op = "resolve"
    /\ Cardinality(liveStreams) = 2
    /\ streamRef \in liveStreams
    /\ stops = 0

\* C30: when stopMicrophone was called while a getUserMedia request was pending and
\* that request resolves before requestMicrophone is called again, the hook does not
\* become active: isActive stays false and no stream is held.
C30_StoppedRequestStaysInactive ==
    [][(lastMic.op = "stop" /\ lastMic'.op = "resolve") =>
          /\ ~micState'.isActive
          /\ micState'.stream = NULL
          /\ streamRef' = NULL
          /\ liveStreams' = liveStreams]_vars

\* the only request ever made was stopped while pending (isRequesting was false before
\* it resolved) and its resolution made the hook active with a live stream
C30_Witness ==
    /\ lastMic.op = "resolve" /\ micSeq = 1
    /\ ~lastMic.before.isRequesting
    /\ stops >= 1
    /\ micState.isActive /\ streamRef \in liveStreams
====
